---- MODULE Spec2Model ----
(***************************************************************************)
(* A model of the thinkforce-mcp tool surface.                             *)
(*                                                                         *)
(* Part I models the four Instagram tools in both versions the repository  *)
(* holds: the "url" version (download to ./temp, publish, clean up, with   *)
(* per-call credentials) and the "env" version (local paths, credentials   *)
(* from the process environment).  Every await of a handler is one step of *)
(* the model, so that several invocations interleave exactly where the     *)
(* single-threaded runtime lets them.                                      *)
(***************************************************************************)
EXTENDS Integers, Sequences, FiniteSets, TLC

(***************************************************************************)
(* Bounds of the model.                                                    *)
(***************************************************************************)
NumCalls == 2        \* invocations that may be in flight together
MaxTime == 1         \* the clock (Date.now()) takes the values 0..MaxTime
MaxSmallFeed == 1    \* feed sizes offered to the interleaved invocations
MaxFeed == 52        \* feed sizes offered to a single invocation
StackLimit == 3      \* nested calls the runtime's stack holds
MaxCount == 2        \* the largest count asked of generate_data
MaxText == 2         \* the longest text given to text_transform
MaxNum == 2          \* calculate is given the integers -MaxNum..MaxNum
MaxTokens == 3       \* every JSON text of up to MaxTokens tokens is tried

(***************************************************************************)
(* Program constants.                                                      *)
(***************************************************************************)
LimitMin == 1
LimitMax == 50
LimitDefault == 10
HandlerFallbackLimit == 10
CountMin == 1
CountMax == 100
CountDefault == 1
PasswordLengthDefault == 12
NumberMinDefault == 1
NumberMaxDefault == 100
JsonIndent == 2

Calls == 1..NumCalls

VARIABLES
  env,          \* process.env: IG_USERNAME, IG_PASSWORD
  calls,        \* calls[i]: the i-th invocation (arguments, locals, position)
  fs,           \* the files of ./temp: path -> [writers, by, st]
  tempDir,      \* whether ./temp exists
  pendingOpen,  \* write streams created but never piped: their open is pending
  sessions,     \* the clients (IgApiClient) created so far
  now,          \* the millisecond clock
  server        \* the FastMCP server: the names registered for each kind

vars == <<env, calls, fs, tempDir, pendingOpen, sessions, now, server>>

(***************************************************************************)
(* JavaScript values.                                                      *)
(***************************************************************************)
Undefined == "<undefined>"
StrInputs == {Undefined, "", "alice"}
Falsy(v) == v \in {Undefined, ""}

\* a number n, or n + 1/2 when half
Num(k) == [t |-> "number", n |-> k, half |-> FALSE]
Frac(k) == [t |-> "number", n |-> k, half |-> TRUE]
UndefNum == [t |-> "undefined", n |-> 0, half |-> FALSE]
NullNum == [t |-> "null", n |-> 0, half |-> FALSE]
StrNum == [t |-> "string", n |-> 0, half |-> FALSE]

UndefUrl == [t |-> "undefined", wellFormed |-> FALSE, pathname |-> <<>>]
BadUrl == [t |-> "string", wellFormed |-> FALSE, pathname |-> <<>>]
Url(p) == [t |-> "string", wellFormed |-> TRUE, pathname |-> p]
Pathnames ==
  { <<"/", "a">>,
    <<"/", "b", ".", "j", "p", "g">>,
    <<"/", "c", ".", "p", "n", "g">> }
UrlInputs == {UndefUrl, BadUrl} \cup {Url(p) : p \in Pathnames}

NoPath == <<>>
NoArgs ==
  [username |-> Undefined, password |-> Undefined, url1 |-> UndefUrl,
   url2 |-> UndefUrl, str1 |-> Undefined, str2 |-> Undefined, limit |-> UndefNum]

UploadTools == {"instagram_upload_photo", "instagram_upload_video"}
InstagramToolNames ==
  UploadTools \cup {"instagram_get_profile", "instagram_get_timeline"}
Variants == {"url", "env"}
Adapters == {"plain", "wrapped"}

(***************************************************************************)
(* path.extname and getFileExtension, on pathnames as character sequences. *)
(***************************************************************************)
LastIndexOf(s, ch) ==
  LET I == {k \in 1..Len(s) : s[k] = ch}
  IN  IF I = {} THEN 0 ELSE CHOOSE k \in I : \A j \in I : j <= k

Extname(p) ==
  LET b == SubSeq(p, LastIndexOf(p, "/") + 1, Len(p))
      d == LastIndexOf(b, ".")
  IN  IF d <= 1 THEN <<>> ELSE SubSeq(b, d, Len(b))


getFileExtension(url) ==
  LET ext == Extname(url.pathname)
  IN  IF ext = <<>> THEN <<".", "j", "p", "g">> ELSE ext

\* `instagram_photo_${timestamp}${extension}` inside ./temp
StagedPath(prefix, timestamp, extension) == <<prefix, timestamp>> \o extension

(***************************************************************************)
(* The parameter schemas (zod): a required string must be a string, a url  *)
(* must parse, and the timeline limit is a number, an integer, at least 1  *)
(* and at most 50, with 10 put in its place when it is absent.             *)
(***************************************************************************)
NumGE(v, k) == v.n >= k
NumLE(v, k) == IF v.half THEN v.n < k ELSE v.n <= k
NumLT(v, k) == v.n < k
NumGT(v, k) == IF v.half THEN v.n >= k ELSE v.n > k

ValidString(v) == v # Undefined
ValidUrl(u) == u.t = "string" /\ u.wellFormed

\* the schema with .max(50) left out
LimitSchemaNoMax(v) ==
  LET w == IF v.t = "undefined" THEN Num(LimitDefault) ELSE v
  IN  [ok |-> w.t = "number" /\ ~w.half /\ NumGE(w, LimitMin), value |-> w]

\* the schema with .int() left out
LimitSchemaNoInt(v) ==
  LET w == IF v.t = "undefined" THEN Num(LimitDefault) ELSE v
  IN  [ok |-> w.t = "number" /\ NumGE(w, LimitMin) /\ NumLE(w, LimitMax),
       value |-> w]

\* z.number().int().min(1).max(50).default(10)
LimitSchema(v) ==
  LET w == IF v.t = "undefined" THEN Num(LimitDefault) ELSE v
  IN  [ok |-> /\ w.t = "number"
              /\ ~w.half
              /\ NumGE(w, LimitMin)
              /\ NumLE(w, LimitMax),
       value |-> w]

Bad(cond, field) == IF cond THEN {} ELSE {field}

\* the fields of the argument bag that the tool's schema rejects
SchemaIssues(tool, variant, a) ==
  LET creds == Bad(ValidString(a.username), "username")
                 \cup Bad(ValidString(a.password), "password")
  IN
  IF variant = "url" THEN
    CASE tool = "instagram_upload_photo" ->
           creds \cup Bad(ValidUrl(a.url1), "imageUrl")
      [] tool = "instagram_upload_video" ->
           creds \cup Bad(ValidUrl(a.url1), "videoUrl")
                 \cup Bad(ValidUrl(a.url2), "coverImageUrl")
      [] tool = "instagram_get_profile" ->
           creds \cup Bad(ValidString(a.str1), "userId")
      [] OTHER ->
           creds \cup Bad(LimitSchema(a.limit).ok, "limit")
  ELSE
    CASE tool = "instagram_upload_photo" -> Bad(ValidString(a.str1), "filePath")
      [] tool = "instagram_upload_video" ->
           Bad(ValidString(a.str1), "videoPath")
             \cup Bad(ValidString(a.str2), "coverImagePath")
      [] tool = "instagram_get_profile" -> Bad(ValidString(a.str1), "userId")
      [] OTHER -> Bad(LimitSchema(a.limit).ok, "limit")

\* the argument bags a caller may send to a tool, its values drawn from D
ArgBags(tool, variant, D) ==
  LET Creds == IF variant = "url" THEN D.creds ELSE {Undefined}
  IN
  CASE tool = "instagram_upload_photo" /\ variant = "url" ->
         {[NoArgs EXCEPT !.username = u, !.password = p, !.url1 = x] :
            u \in Creds, p \in Creds, x \in D.urls}
    [] tool = "instagram_upload_video" /\ variant = "url" ->
         {[NoArgs EXCEPT !.username = u, !.password = p, !.url1 = x, !.url2 = y] :
            u \in Creds, p \in Creds, x \in D.urls, y \in D.covers}
    [] tool = "instagram_upload_photo" /\ variant = "env" ->
         {[NoArgs EXCEPT !.str1 = s] : s \in D.strs}
    [] tool = "instagram_upload_video" /\ variant = "env" ->
         {[NoArgs EXCEPT !.str1 = s, !.str2 = t] : s \in D.strs, t \in D.strs}
    [] tool = "instagram_get_profile" ->
         {[NoArgs EXCEPT !.username = u, !.password = p, !.str1 = s] :
            u \in Creds, p \in Creds, s \in D.strs}
    [] OTHER ->
         {[NoArgs EXCEPT !.username = u, !.password = p, !.limit = l] :
            u \in Creds, p \in Creds, l \in D.limits}

(***************************************************************************)
(* The arguments of the core tools (src/src/core/tools.ts).  A string is   *)
(* the sequence of its characters; a text that is only parsed as a whole   *)
(* (a date, a time zone, a JSON document) is a sequence holding it.        *)
(***************************************************************************)
Str(s) == [t |-> "string", s |-> s]
UndefStr == [t |-> "undefined", s |-> <<>>]
\* a number given where the schema declares a string
NumAsStr == [t |-> "number", s |-> <<>>]
\* !v for a string that may be absent
Empty(v) == v.t = "undefined" \/ v.s = <<>>

\* the options object of generate_data, when given
NoOptions ==
  [present |-> FALSE, length |-> UndefNum, min |-> UndefNum, max |-> UndefNum]
Options(l, lo, hi) == [present |-> TRUE, length |-> l, min |-> lo, max |-> hi]

CoreToolNames ==
  {"hello_world", "goodbye", "calculate", "text_transform", "generate_data",
   "datetime_utility", "json_utility"}

NoCoreArgs ==
  [name |-> UndefStr, operation |-> Undefined, a |-> UndefNum, b |-> UndefNum,
   text |-> UndefStr, type |-> Undefined, count |-> UndefNum,
   options |-> NoOptions, date |-> UndefStr, format |-> UndefStr,
   days |-> UndefNum, target_date |-> UndefStr, timezone |-> UndefStr,
   json |-> UndefStr, key_path |-> UndefStr]

(***************************************************************************)
(* Results, and the record of one invocation.                              *)
(***************************************************************************)
NoResult ==
  [kind |-> "none", hasSuccess |-> FALSE, success |-> FALSE, error |-> "",
   issues |-> {}, payload |-> <<>>]

\* the dispatcher's answer to an argument bag the schema rejects
Rejected(issues) == [NoResult EXCEPT !.kind = "rejected", !.issues = issues]
\* JSON.stringify({ success: true, message, ...result })
SuccessJson(payload) ==
  [NoResult EXCEPT !.kind = "returned", !.hasSuccess = TRUE, !.success = TRUE,
                   !.payload = payload]
\* JSON.stringify({ success: false, error: error.message })
FailureJson(msg) ==
  [NoResult EXCEPT !.kind = "returned", !.hasSuccess = TRUE, !.error = msg]
\* JSON.stringify(result)
PlainJson(payload) == [NoResult EXCEPT !.kind = "returned", !.payload = payload]
\* the handler's promise rejects
Thrown(msg) == [NoResult EXCEPT !.kind = "threw", !.error = msg]

IdleCall ==
  [pc |-> "idle", tool |-> "none", variant |-> "none", adapter |-> "none",
   invoked |-> FALSE, credsInCall |-> FALSE, args |-> NoCoreArgs,
   ext1 |-> <<>>, ext2 |-> <<>>, limit |-> UndefNum, validatedLimit |-> 0,
   ig |-> <<>>, timestamp |-> -1,
   localFilePath |-> NoPath, localVideoPath |-> NoPath, localCoverPath |-> NoPath,
   cur |-> NoPath,
   result |-> NoResult, raised |-> "",
   \* history: what the invocation did
   rawLimit |-> UndefNum, feedSize |-> -1,
   nLogin |-> 0, nFetch |-> 0, nPlatform |-> 0, used |-> {},
   created |-> {}, unlinkThrew |-> {}, left |-> {}]


CredentialsError == "Instagram credentials not provided"

\* getCredentials with && in the place of ||
getCredentialsBothMissing(e) ==
  IF Falsy(e.IG_USERNAME) /\ Falsy(e.IG_PASSWORD)
    THEN [ok |-> FALSE, error |-> CredentialsError]
    ELSE [ok |-> TRUE, error |-> ""]

\* function getCredentials(): the credentials, or the failure it throws
getCredentials(e) ==
  IF Falsy(e.IG_USERNAME) \/ Falsy(e.IG_PASSWORD)
    THEN [ok |-> FALSE, error |-> CredentialsError]
    ELSE [ok |-> TRUE, error |-> ""]

\* only the photo handler wrapped in try/catch
HandlerCatchesPhotoOnly(c) == c.variant = "url" /\ c.tool = "instagram_upload_photo"

\* the two upload handlers of the url version wrap their body in try/catch
HandlerCatches(c) == c.variant = "url" /\ c.tool \in UploadTools


(***************************************************************************)
(* The staging directory.                                                  *)
(***************************************************************************)
Remove(f, p) == [q \in DOMAIN f \ {p} |-> f[q]]

\* fs.createWriteStream opens with flag 'w': creates the file or truncates it
OpenForWrite(f, p, i) ==
  IF p \in DOMAIN f
    THEN [f EXCEPT ![p] = [writers |-> @.writers \cup {i}, by |-> i, st |-> "partial"]]
    ELSE f @@ (p :> [writers |-> {i}, by |-> i, st |-> "partial"])

\* the pipeline ends well: the bytes are in the file the stream opened
FinishWrite(f, p, i) ==
  IF p \in DOMAIN f /\ i \in f[p].writers
    THEN [f EXCEPT ![p].st = "complete"]
    ELSE f

UnlinkOutcomes == {"ok", "throw"}

\* cleanupFile without its try/catch: what unlinkSync throws leaves it
cleanupFileNoCatch(f, p, o) ==
  IF p \in DOMAIN f
    THEN IF o = "ok" THEN [fs |-> Remove(f, p), threw |-> {}, escaped |-> FALSE]
                     ELSE [fs |-> f, threw |-> {p}, escaped |-> TRUE]
    ELSE [fs |-> f, threw |-> {}, escaped |-> FALSE]

\* function cleanupFile(filePath): o is what unlinkSync does when it is called;
\* threw are the paths whose unlinkSync threw, escaped whether an exception
\* leaves cleanupFile, which its catch never lets happen
cleanupFile(f, p, o) ==
  IF p \in DOMAIN f
    THEN IF o = "ok" THEN [fs |-> Remove(f, p), threw |-> {}, escaped |-> FALSE]
                     ELSE [fs |-> f, threw |-> {p}, escaped |-> FALSE]
    ELSE [fs |-> f, threw |-> {}, escaped |-> FALSE]

\* the cleanup moved from the finally block to the end of the try block
PhotoCleanupOnSuccessOnly(f, c, os) ==
  IF c.localFilePath # NoPath /\ c.result.success
    THEN cleanupFile(f, c.localFilePath, os[1])
    ELSE [fs |-> f, threw |-> {}, escaped |-> FALSE]

\* finally { if (localFilePath) cleanupFile(localFilePath) }
PhotoFinally(f, c, os) ==
  IF c.localFilePath # NoPath
    THEN cleanupFile(f, c.localFilePath, os[1])
    ELSE [fs |-> f, threw |-> {}, escaped |-> FALSE]

\* finally { if (localVideoPath) cleanupFile(..); if (localCoverPath) cleanupFile(..) }
VideoFinally(f, c, os) ==
  LET v == IF c.localVideoPath # NoPath
             THEN cleanupFile(f, c.localVideoPath, os[1])
             ELSE [fs |-> f, threw |-> {}, escaped |-> FALSE]
      k == IF ~v.escaped /\ c.localCoverPath # NoPath
             THEN cleanupFile(v.fs, c.localCoverPath, os[2])
             ELSE [fs |-> v.fs, threw |-> {}, escaped |-> FALSE]
  IN  [fs |-> k.fs, threw |-> v.threw \cup k.threw,
       escaped |-> v.escaped \/ k.escaped]

Finally(f, c, os) ==
  IF c.variant = "url" /\ c.tool = "instagram_upload_photo" THEN PhotoFinally(f, c, os)
  ELSE IF c.variant = "url" /\ c.tool = "instagram_upload_video" THEN VideoFinally(f, c, os)
  ELSE [fs |-> f, threw |-> {}, escaped |-> FALSE]

\* the paths the handler holds in localFilePath / localVideoPath / localCoverPath
Staged(c) == {c.localFilePath, c.localVideoPath, c.localCoverPath} \ {NoPath}

(***************************************************************************)
(* The external platform (instagram.ts).  What the network and the         *)
(* platform answer is the environment's choice.                            *)
(***************************************************************************)

\* login keeping one client for the whole process
loginCached(sess, i, k) ==
  IF sess # {} THEN CHOOSE x \in sess : TRUE ELSE <<i, k>>

\* login(): new IgApiClient() is a client of its own, the k-th that call i makes
login(sess, i, k) == <<i, k>>

\* instagram.ts as the url version's older sibling has it: feed.items(), whole
getTimelineFeedPlain(feed, limit) == [ok |-> TRUE, items |-> feed, error |-> ""]

\* instagram.ts: feed.items is replaced by a closure that calls feed.items(),
\* which by then is the closure itself
RECURSIVE WrappedItems(_, _, _)
WrappedItems(feed, limit, depth) ==
  IF depth >= StackLimit
    THEN [ok |-> FALSE, items |-> <<>>, error |-> "Maximum call stack size exceeded"]
    ELSE LET r == WrappedItems(feed, limit, depth + 1)
         IN  IF r.ok
               THEN [r EXCEPT !.items = SubSeq(r.items, 1, limit)]
               ELSE r

getTimelineFeed(adapter, feed, limit) ==
  IF adapter = "plain" THEN getTimelineFeedPlain(feed, limit)
                       ELSE WrappedItems(feed, limit, 0)

Feed(n) == [k \in 1..n |-> k]
Min(a, b) == IF a <= b THEN a ELSE b

\* Array.prototype.slice(0, k)
Slice(items, k) == SubSeq(items, 1, Min(k, Len(items)))

\* url version, after login: the handler's own look at limit
HandlerLimit(l) ==
  LET v == IF l.t = "number" /\ (NumLT(l, LimitMin) \/ NumGT(l, LimitMax))
             THEN Num(HandlerFallbackLimit) ELSE l
  IN  [ok |-> v.t = "number" /\ ~v.half, value |-> v]

\* url version, after getTimelineFeed: adjust the limit, slice, stringify
TimelineUrlReturn(items, validatedLimit) ==
  LET v == IF Len(items) < validatedLimit THEN Len(items) ELSE validatedLimit
  IN  IF Len(items) = 0 THEN <<>> ELSE Slice(items, v)

\* env version: JSON.stringify(result.slice(0, limit))
TimelineEnvReturn(items, limit) == Slice(items, limit)

(***************************************************************************)
(* The steps of an invocation.                                             *)
(***************************************************************************)
Outcomes2 == [1..2 -> UnlinkOutcomes]

\* the handler settles with c's result: the finally block runs, the call ends;
\* an exception leaving the finally block would replace the result
Return(i, c, os) ==
  LET fin == Finally(fs, c, os)
  IN  /\ fs' = fin.fs
      /\ calls' = [calls EXCEPT ![i] =
           [c EXCEPT !.pc = "done", !.unlinkThrew = fin.threw,
                     !.left = (c.created \cup Staged(c)) \cap DOMAIN fin.fs,
                     !.result = IF fin.escaped
                                  THEN Thrown("EPERM: operation not permitted, unlink")
                                  ELSE @]]

\* a failure with message msg is raised inside the handler
Raise(i, c, msg, os) ==
  Return(i,
         [c EXCEPT !.raised = msg,
                   !.result = IF HandlerCatches(c) THEN FailureJson(msg)
                                                   ELSE Thrown(msg)],
         os)

\* the dispatcher validates the arguments and, if they pass, calls execute,
\* which runs up to its first await
Invoke(i, D) ==
  /\ calls[i].pc = "idle"
  /\ i > 1 => calls[i - 1].pc # "idle"
  /\ \E tool \in InstagramToolNames, variant \in Variants, adapter \in Adapters :
       \E a \in ArgBags(tool, variant, D) :
         LET issues == SchemaIssues(tool, variant, a)
             c0 == [IdleCall EXCEPT
                      !.tool = tool, !.variant = variant,
                      !.adapter = IF tool = "instagram_get_timeline"
                                    THEN adapter ELSE "plain",
                      !.credsInCall = a.username # Undefined /\ a.password # Undefined,
                      !.rawLimit = a.limit]
             c1 == [c0 EXCEPT
                      !.invoked = TRUE,
                      !.ext1 = IF variant = "url" /\ tool \in UploadTools
                                 THEN getFileExtension(a.url1) ELSE <<>>,
                      !.ext2 = IF variant = "url" /\ tool = "instagram_upload_video"
                                 THEN getFileExtension(a.url2) ELSE <<>>,
                      !.limit = IF tool = "instagram_get_timeline"
                                  THEN LimitSchema(a.limit).value ELSE UndefNum]
             cred == getCredentials(env)
         IN
         IF issues # {}
           THEN /\ calls' = [calls EXCEPT ![i] =
                     [c0 EXCEPT !.pc = "done", !.result = Rejected(issues)]]
                /\ UNCHANGED fs
           ELSE IF variant = "env" /\ ~cred.ok
             THEN Raise(i, c1, cred.error, <<"ok", "ok">>)
             ELSE /\ calls' = [calls EXCEPT ![i] =
                       [c1 EXCEPT !.pc = "login", !.nLogin = @ + 1]]
                  /\ UNCHANGED fs
  /\ UNCHANGED <<server, env, tempDir, pendingOpen, sessions, now>>

PhotoPath(c) == StagedPath("instagram_photo_", c.timestamp, c.ext1)
VideoPath(c) == StagedPath("instagram_video_", c.timestamp, c.ext1)
CoverPath(c) == StagedPath("instagram_cover_", c.timestamp, c.ext2)

\* what the handler does between the end of login and its next await
AfterLogin(c, t) ==
  IF c.variant = "url" /\ c.tool = "instagram_upload_photo" THEN
    LET d == [c EXCEPT !.timestamp = t]
    IN  [d EXCEPT !.cur = PhotoPath(d), !.pc = "fetch", !.nFetch = @ + 1]
  ELSE IF c.variant = "url" /\ c.tool = "instagram_upload_video" THEN
    LET d == [c EXCEPT !.timestamp = t]
    IN  [d EXCEPT !.cur = VideoPath(d), !.pc = "fetch", !.nFetch = @ + 1]
  ELSE IF c.tool \in UploadTools THEN
    [c EXCEPT !.pc = "read"]
  ELSE IF c.tool = "instagram_get_profile" THEN
    [c EXCEPT !.pc = "profile", !.nPlatform = @ + 1, !.used = @ \cup {c.ig}]
  ELSE IF c.variant = "url" THEN
    LET h == HandlerLimit(c.limit)
    IN  IF h.ok
          THEN [c EXCEPT !.validatedLimit = h.value.n, !.pc = "feed",
                         !.nPlatform = @ + 1, !.used = @ \cup {c.ig}]
          ELSE [c EXCEPT !.pc = "throw"]
  ELSE
    [c EXCEPT !.validatedLimit = c.limit.n, !.pc = "feed",
              !.nPlatform = @ + 1, !.used = @ \cup {c.ig}]

\* a login that is tried a second time when it fails
LoginDoneRetryOnce(i) ==
  /\ calls[i].pc = "login"
  /\ \E ok \in BOOLEAN :
       IF ok
         THEN LET ig == login(sessions, i, calls[i].nLogin)
                  c == AfterLogin([calls[i] EXCEPT !.ig = ig], now)
              IN  /\ sessions' = sessions \cup {ig}
                  /\ IF c.pc = "throw"
                       THEN Raise(i, c, "Limit must be an integer", <<"ok", "ok">>)
                       ELSE calls' = [calls EXCEPT ![i] = c] /\ UNCHANGED fs
         ELSE /\ IF calls[i].nLogin < 2
                   THEN calls' = [calls EXCEPT ![i].nLogin = @ + 1] /\ UNCHANGED fs
                   ELSE Raise(i, calls[i], "IgLoginBadPasswordError", <<"ok", "ok">>)
              /\ UNCHANGED sessions
  /\ UNCHANGED <<server, env, tempDir, pendingOpen, now>>

\* await login(username, password) settles
LoginDone(i) ==
  /\ calls[i].pc = "login"
  /\ \E ok \in BOOLEAN :
       IF ok
         THEN LET ig == login(sessions, i, calls[i].nLogin)
                  c == AfterLogin([calls[i] EXCEPT !.ig = ig], now)
              IN  /\ sessions' = sessions \cup {ig}
                  /\ IF c.pc = "throw"
                       THEN Raise(i, c, "Limit must be an integer", <<"ok", "ok">>)
                       ELSE calls' = [calls EXCEPT ![i] = c] /\ UNCHANGED fs
         ELSE /\ Raise(i, calls[i], "IgLoginBadPasswordError", <<"ok", "ok">>)
              /\ UNCHANGED sessions
  /\ UNCHANGED <<server, env, tempDir, pendingOpen, now>>

\* downloadFile returned filePath: the handler stores it and goes on
DownloadReturned(c) ==
  IF c.tool = "instagram_upload_photo" THEN
    [c EXCEPT !.localFilePath = c.cur, !.cur = NoPath, !.pc = "read"]
  ELSE IF c.cur = VideoPath(c) /\ c.localVideoPath = NoPath THEN
    [c EXCEPT !.localVideoPath = c.cur, !.cur = CoverPath(c), !.pc = "fetch",
              !.nFetch = @ + 1]
  ELSE
    [c EXCEPT !.localCoverPath = c.cur, !.cur = NoPath, !.pc = "read"]

FetchOutcomes == {"reject", "notok", "body", "nobody"}

\* await fetch(url) settles; on success the write stream is created
FetchDone(i) ==
  /\ calls[i].pc = "fetch"
  /\ \E o \in FetchOutcomes :
       LET c == calls[i] IN
       CASE o = "reject" ->
              /\ \E os \in Outcomes2 : Raise(i, c, "fetch failed", os)
              /\ UNCHANGED <<tempDir, pendingOpen>>
         [] o = "notok" ->
              /\ \E os \in Outcomes2 : Raise(i, c, "Failed to download file: Not Found", os)
              /\ UNCHANGED <<tempDir, pendingOpen>>
         [] o = "body" ->
              /\ tempDir' = TRUE
              /\ calls' = [calls EXCEPT ![i] = [c EXCEPT !.pc = "open"]]
              /\ UNCHANGED <<fs, pendingOpen>>
         [] OTHER ->
              /\ tempDir' = TRUE
              /\ pendingOpen' = pendingOpen \cup {[path |-> c.cur, by |-> i]}
              /\ calls' = [calls EXCEPT ![i] = DownloadReturned(c)]
              /\ UNCHANGED fs
  /\ UNCHANGED <<server, env, sessions, now>>

\* the piped write stream opens its file, or fails to
StreamOpen(i) ==
  /\ calls[i].pc = "open"
  /\ \E ok \in BOOLEAN :
       LET c == calls[i] IN
       IF ok
         THEN /\ fs' = OpenForWrite(fs, c.cur, i)
              /\ calls' = [calls EXCEPT ![i] =
                   [c EXCEPT !.pc = "pipe", !.created = @ \cup {c.cur}]]
         ELSE \E os \in Outcomes2 : Raise(i, c, "EACCES: permission denied, open", os)
  /\ UNCHANGED <<server, env, tempDir, pendingOpen, sessions, now>>

\* await streamPipeline(response.body, fileStream) settles
StreamDone(i) ==
  /\ calls[i].pc = "pipe"
  /\ \E ok \in BOOLEAN :
       LET c == calls[i] IN
       IF ok
         THEN /\ fs' = FinishWrite(fs, c.cur, i)
              /\ calls' = [calls EXCEPT ![i] = DownloadReturned(c)]
         ELSE \E os \in Outcomes2 : Raise(i, c, "aborted", os)
  /\ UNCHANGED <<server, env, tempDir, pendingOpen, sessions, now>>

\* a write stream that was never piped opens its file at a time of its own
LateOpen ==
  /\ \E po \in pendingOpen :
       /\ pendingOpen' = pendingOpen \ {po}
       /\ fs' = OpenForWrite(fs, po.path, po.by)
       /\ calls' = [calls EXCEPT ![po.by].created = @ \cup {po.path}]
  /\ UNCHANGED <<server, env, tempDir, sessions, now>>

\* the file readFile is asked for next
ReadTarget(c) ==
  IF c.tool = "instagram_upload_photo" THEN c.localFilePath
  ELSE IF c.pc = "read" THEN c.localVideoPath ELSE c.localCoverPath

\* await readFile(path) settles (uploadPhoto, uploadVideo)
ReadDone(i) ==
  /\ calls[i].pc \in {"read", "read2"}
  /\ \E userFileOk \in BOOLEAN, os \in Outcomes2 :
       LET c == calls[i]
           ok == IF c.variant = "url" THEN ReadTarget(c) \in DOMAIN fs
                                      ELSE userFileOk
       IN
       IF ~ok THEN Raise(i, c, "ENOENT: no such file or directory, open", os)
       ELSE /\ calls' = [calls EXCEPT ![i] =
                 IF c.tool = "instagram_upload_video" /\ c.pc = "read"
                   THEN [c EXCEPT !.pc = "read2"]
                   ELSE [c EXCEPT !.pc = "publish", !.nPlatform = @ + 1,
                                  !.used = @ \cup {c.ig}]]
            /\ UNCHANGED fs
  /\ UNCHANGED <<server, env, tempDir, pendingOpen, sessions, now>>

\* await ig.publish.photo / ig.publish.video settles
PublishDone(i) ==
  /\ calls[i].pc = "publish"
  /\ \E ok \in BOOLEAN, os \in Outcomes2 :
       LET c == calls[i] IN
       IF ok
         THEN Return(i, [c EXCEPT !.result =
                IF c.variant = "url" THEN SuccessJson(<<"media">>)
                                     ELSE PlainJson(<<"media">>)], os)
         ELSE Raise(i, c, "IgUploadError", os)
  /\ UNCHANGED <<server, env, tempDir, pendingOpen, sessions, now>>

\* await getProfile(ig, userId) settles
ProfileDone(i) ==
  /\ calls[i].pc = "profile"
  /\ \E ok \in BOOLEAN :
       LET c == calls[i] IN
       IF ok
         THEN Return(i, [c EXCEPT !.result = PlainJson(<<"user">>)], <<"ok", "ok">>)
         ELSE Raise(i, c, "IgNotFoundError", <<"ok", "ok">>)
  /\ UNCHANGED <<server, env, tempDir, pendingOpen, sessions, now>>

\* await getTimelineFeed(ig, limit) settles, the platform holding n items
FeedDone(i, Sizes) ==
  /\ calls[i].pc = "feed"
  /\ \E ok \in BOOLEAN, n \in Sizes :
       LET c == calls[i]
           r == getTimelineFeed(c.adapter, Feed(n), c.validatedLimit)
       IN
       IF ~ok THEN Raise(i, c, "IgNetworkError", <<"ok", "ok">>)
       ELSE IF ~r.ok THEN Raise(i, [c EXCEPT !.feedSize = n], r.error, <<"ok", "ok">>)
       ELSE Return(i, [c EXCEPT !.feedSize = n, !.result = PlainJson(
                         IF c.variant = "url"
                           THEN TimelineUrlReturn(r.items, c.validatedLimit)
                           ELSE TimelineEnvReturn(r.items, c.validatedLimit))],
                   <<"ok", "ok">>)
  /\ UNCHANGED <<server, env, tempDir, pendingOpen, sessions, now>>

\* a millisecond passes
Tick ==
  /\ now < MaxTime
  /\ now' = now + 1
  /\ UNCHANGED <<server, env, calls, fs, tempDir, pendingOpen, sessions>>

(***************************************************************************)
(* Registration.  addTool, addPrompt and addResourceTemplate append to the *)
(* server's lists; each register function is called once at start-up.     *)
(***************************************************************************)

NewServer == [tools |-> <<>>, prompts |-> <<>>, resources |-> <<>>, ran |-> {}]

\* export const instagramTools: Tool<any>[] = [ ... ], by name
instagramTools ==
  <<"instagram_upload_photo", "instagram_upload_video", "instagram_get_profile",
    "instagram_get_timeline">>

\* a registration that adds the array of each of the two Instagram modules
registerToolsBothModules(srv) ==
  [srv EXCEPT !.tools = @ \o <<"hello_world", "goodbye", "calculate",
                               "text_transform", "generate_data",
                               "datetime_utility", "json_utility">>
                          \o instagramTools \o instagramTools,
              !.ran = @ \cup {"registerTools"}]

registerTools(srv) ==
  [srv EXCEPT !.tools = @ \o <<"hello_world", "goodbye", "calculate",
                               "text_transform", "generate_data",
                               "datetime_utility", "json_utility">>
                          \o instagramTools,
              !.ran = @ \cup {"registerTools"}]

registerPrompts(srv) ==
  [srv EXCEPT !.prompts = @ \o <<"greeting", "code_generator",
                                 "tech_documentation", "data_analysis",
                                 "creative_writing", "problem_solver",
                                 "explain_concept", "review_feedback">>,
              !.ran = @ \cup {"registerPrompts"}]

registerResources(srv) ==
  [srv EXCEPT !.resources = @ \o <<"example://{id}",
                                   "config://{environment}/{service}",
                                   "api://{version}/{endpoint}",
                                   "logs://{service}/{date}/{level}",
                                   "schema://{database}/{table}",
                                   "metrics://{service}/{timeframe}",
                                   "docs://{type}/{template}",
                                   "snippets://{language}/{category}">>,
              !.ran = @ \cup {"registerResources"}]

\* the server once start-up is over
Started == registerResources(registerPrompts(registerTools(NewServer)))

(***************************************************************************)
(* The interleaved invocations.                                            *)
(***************************************************************************)
\* the values offered to interleaved invocations
SmallInputs ==
  [creds |-> {Undefined, "alice"},
   urls |-> {Url(<<"/", "a">>), Url(<<"/", "c", ".", "p", "n", "g">>)},
   covers |-> {Url(<<"/", "b", ".", "j", "p", "g">>)},
   strs |-> {"alice"},
   limits |-> {UndefNum, Num(1)}]
SmallFeeds == 0..MaxSmallFeed
SmallEnv ==
  { [IG_USERNAME |-> "alice", IG_PASSWORD |-> "alice"],
    [IG_USERNAME |-> "alice", IG_PASSWORD |-> ""] }

Init ==
  /\ env \in SmallEnv
  /\ calls = [i \in Calls |-> IdleCall]
  /\ fs = <<>>
  /\ tempDir = FALSE
  /\ pendingOpen = {}
  /\ sessions = {}
  /\ now = 0
  /\ server = Started

Next ==
  \/ \E i \in Calls : Invoke(i, SmallInputs)
  \/ \E i \in Calls : LoginDone(i)
  \/ \E i \in Calls : FetchDone(i)
  \/ \E i \in Calls : StreamOpen(i)
  \/ \E i \in Calls : StreamDone(i)
  \/ \E i \in Calls : ReadDone(i)
  \/ \E i \in Calls : PublishDone(i)
  \/ \E i \in Calls : ProfileDone(i)
  \/ \E i \in Calls : FeedDone(i, SmallFeeds)
  \/ LateOpen
  \/ Tick

Spec == Init /\ [][Next]_vars

(***************************************************************************)
(* One invocation alone, with every kind of argument and environment.      *)
(***************************************************************************)
AllLimits ==
  {UndefNum, NullNum, StrNum}
    \cup {Num(k) : k \in -1..(LimitMax + 2)}
    \cup {Frac(k) : k \in {0, 1, LimitMax}}
AllInputs ==
  [creds |-> StrInputs, urls |-> UrlInputs, covers |-> UrlInputs,
   strs |-> StrInputs, limits |-> AllLimits]
AllFeeds == 0..MaxFeed

InitCall ==
  /\ env \in [IG_USERNAME : StrInputs, IG_PASSWORD : StrInputs]
  /\ calls = [i \in Calls |-> IdleCall]
  /\ fs = <<>>
  /\ tempDir = FALSE
  /\ pendingOpen = {}
  /\ sessions = {}
  /\ now = 0
  /\ server = Started

NextCall ==
  \/ Invoke(1, AllInputs)
  \/ LoginDone(1)
  \/ FetchDone(1)
  \/ StreamOpen(1)
  \/ StreamDone(1)
  \/ ReadDone(1)
  \/ PublishDone(1)
  \/ ProfileDone(1)
  \/ FeedDone(1, AllFeeds)
  \/ LateOpen
  \/ Tick

SpecCall == InitCall /\ [][NextCall]_vars

(***************************************************************************)
(* The core tools: registerTools, src/src/core/tools.ts.                   *)
(***************************************************************************)
\* z.string(), z.string().optional(), z.number(), z.number().optional()
Is(v, type) == v.t = type
Opt(v, type) == v.t \in {type, "undefined"}

CalculateOps == {"add", "subtract", "multiply", "divide", "power"}
TextOps ==
  {"uppercase", "lowercase", "capitalize", "reverse", "word_count", "char_count"}
DataTypes == {"uuid", "password", "email", "phone", "color", "number"}
DatetimeOps == {"current", "format", "add_days", "diff_days", "timezone_convert"}
JsonOps == {"validate", "format", "minify", "extract_keys", "extract_values"}

\* z.number().min(1).max(100).default(1)
CountSchema(v) ==
  LET w == IF v.t = "undefined" THEN Num(CountDefault) ELSE v
  IN  [ok |-> w.t = "number" /\ NumGE(w, CountMin) /\ NumLE(w, CountMax),
       value |-> w]

\* z.object({ length, min, max: z.number().optional() }).optional()
OptionsSchema(o) ==
  ~o.present \/ (Opt(o.length, "number") /\ Opt(o.min, "number") /\ Opt(o.max, "number"))

\* the fields of the argument bag that the core tool's schema rejects
CoreSchemaIssues(tool, a) ==
  CASE tool \in {"hello_world", "goodbye"} -> Bad(Is(a.name, "string"), "name")
    [] tool = "calculate" ->
         Bad(a.operation \in CalculateOps, "operation")
           \cup Bad(Is(a.a, "number"), "a") \cup Bad(Is(a.b, "number"), "b")
    [] tool = "text_transform" ->
         Bad(Is(a.text, "string"), "text") \cup Bad(a.operation \in TextOps, "operation")
    [] tool = "generate_data" ->
         Bad(a.type \in DataTypes, "type")
           \cup Bad(CountSchema(a.count).ok, "count")
           \cup Bad(OptionsSchema(a.options), "options")
    [] tool = "datetime_utility" ->
         Bad(a.operation \in DatetimeOps, "operation")
           \cup Bad(Opt(a.date, "string"), "date")
           \cup Bad(Opt(a.format, "string"), "format")
           \cup Bad(Opt(a.days, "number"), "days")
           \cup Bad(Opt(a.target_date, "string"), "target_date")
           \cup Bad(Opt(a.timezone, "string"), "timezone")
    [] OTHER ->
         Bad(a.operation \in JsonOps, "operation")
           \cup Bad(Is(a.json, "string"), "json")
           \cup Bad(Opt(a.key_path, "string"), "key_path")

\* what the schema hands to execute: the bag with the defaults filled in
CoreParams(tool, a) ==
  IF tool = "generate_data" THEN [a EXCEPT !.count = CountSchema(a.count).value]
                            ELSE a

\* how execute ends: it returns value, or throws an Error with the message
Ret(v) == [ok |-> TRUE, value |-> v, error |-> ""]
Throw(msg) == [ok |-> FALSE, value |-> <<>>, error |-> msg]

\* GreetingService.generateGreeting / generateFarewell
generateGreeting(name) == <<"greeting">> \o name
generateFarewell(name) == <<"farewell">> \o name

(***************************************************************************)
(* calculate.  The numbers drawn are integers; a quotient or a power is    *)
(* the fraction num/den in lowest terms, den = 0 standing for Infinity.    *)
(***************************************************************************)

Abs(x) == IF x < 0 THEN -x ELSE x
RECURSIVE GCD(_, _)
GCD(x, y) == IF y = 0 THEN x ELSE GCD(y, x % y)
Ratio(n, d) ==
  LET g == GCD(Abs(n), Abs(d))
      sgn == IF d < 0 THEN -1 ELSE 1
  IN  [num |-> (sgn * n) \div g, den |-> Abs(d) \div g]

RECURSIVE IntPow(_, _)
IntPow(x, n) == IF n = 0 THEN 1 ELSE x * IntPow(x, n - 1)
\* Math.pow(x, y)
MathPow(x, y) ==
  IF y >= 0 THEN Ratio(IntPow(x, y), 1)
  ELSE IF x = 0 THEN [num |-> 1, den |-> 0]
  ELSE Ratio(1, IntPow(x, -y))

\* calculate without the guard of the divide arm
calculateUnguarded(p) ==
  LET x == p.a.n
      y == p.b.n
      op == p.operation
  IN  CASE op = "add" -> Ret(<<x, op, y, Ratio(x + y, 1)>>)
        [] op = "subtract" -> Ret(<<x, op, y, Ratio(x - y, 1)>>)
        [] op = "multiply" -> Ret(<<x, op, y, Ratio(x * y, 1)>>)
        [] op = "divide" ->
             Ret(<<x, op, y, IF y = 0 THEN [num |-> x, den |-> 0] ELSE Ratio(x, y)>>)
        [] op = "power" -> Ret(<<x, op, y, MathPow(x, y)>>)
        [] OTHER -> Throw("Unknown operation")

\* calculate with a missing break: the subtract arm falls into multiply
calculateFallThrough(p) ==
  LET x == p.a.n
      y == p.b.n
      op == p.operation
  IN  CASE op = "add" -> Ret(<<x, op, y, Ratio(x + y, 1)>>)
        [] op = "subtract" -> Ret(<<x, op, y, Ratio(x * y, 1)>>)
        [] op = "multiply" -> Ret(<<x, op, y, Ratio(x * y, 1)>>)
        [] op = "divide" ->
             IF y = 0 THEN Throw("Division by zero is not allowed")
                      ELSE Ret(<<x, op, y, Ratio(x, y)>>)
        [] op = "power" -> Ret(<<x, op, y, MathPow(x, y)>>)
        [] OTHER -> Throw("Unknown operation")

\* returns `${a} ${operation} ${b} = ${result}`
calculate(p) ==
  LET x == p.a.n
      y == p.b.n
      op == p.operation
  IN  CASE op = "add" -> Ret(<<x, op, y, Ratio(x + y, 1)>>)
        [] op = "subtract" -> Ret(<<x, op, y, Ratio(x - y, 1)>>)
        [] op = "multiply" -> Ret(<<x, op, y, Ratio(x * y, 1)>>)
        [] op = "divide" ->
             IF y = 0 THEN Throw("Division by zero is not allowed")
                      ELSE Ret(<<x, op, y, Ratio(x, y)>>)
        [] op = "power" -> Ret(<<x, op, y, MathPow(x, y)>>)
        [] OTHER -> Throw("Unknown operation")

(***************************************************************************)
(* text_transform.                                                         *)
(***************************************************************************)
Alphabet == {"a", "B", " "}
ToUpperCase(ch) == CASE ch = "a" -> "A" [] ch = "b" -> "B" [] OTHER -> ch
ToLowerCase(ch) == CASE ch = "A" -> "a" [] ch = "B" -> "b" [] OTHER -> ch
Upper(s) == [k \in 1..Len(s) |-> ToUpperCase(s[k])]
Lower(s) == [k \in 1..Len(s) |-> ToLowerCase(s[k])]

\* String.prototype.split(ch)
RECURSIVE Split(_, _)
Split(s, ch) ==
  IF \A k \in 1..Len(s) : s[k] # ch
    THEN <<s>>
    ELSE LET k == CHOOSE k \in 1..Len(s) :
                    s[k] = ch /\ \A j \in 1..(k - 1) : s[j] # ch
         IN  <<SubSeq(s, 1, k - 1)>> \o Split(SubSeq(s, k + 1, Len(s)), ch)

\* Array.prototype.join(ch)
RECURSIVE Join(_, _)
Join(parts, ch) ==
  IF parts = <<>> THEN <<>>
  ELSE IF Len(parts) = 1 THEN parts[1]
  ELSE parts[1] \o <<ch>> \o Join(Tail(parts), ch)

\* word.charAt(0).toUpperCase() + word.slice(1).toLowerCase()
CapitalizeWord(w) ==
  IF w = <<>> THEN <<>> ELSE <<ToUpperCase(w[1])>> \o Lower(Tail(w))
Capitalize(s) ==
  LET words == Split(s, " ")
  IN  Join([k \in 1..Len(words) |-> CapitalizeWord(words[k])], " ")

\* a reversal whose loop stops one character early
ReverseShort(s) == [k \in 1..(Len(s) - 1) |-> s[Len(s) - k]]

\* text.split('').reverse().join('')
Reverse(s) == [k \in 1..Len(s) |-> s[Len(s) + 1 - k]]

\* String.prototype.trim()
RECURSIVE Trim(_)
Trim(s) ==
  IF s = <<>> THEN s
  ELSE IF Head(s) = " " THEN Trim(Tail(s))
  ELSE IF s[Len(s)] = " " THEN Trim(SubSeq(s, 1, Len(s) - 1))
  ELSE s

\* text.trim().split(/\s+/).length
WordCount(s) ==
  LET t == Trim(s)
  IN  1 + Cardinality({k \in 2..Len(t) : t[k] = " " /\ t[k - 1] # " "})

text_transform(p) ==
  LET text == p.text.s
      op == p.operation
  IN  CASE op = "uppercase" -> Ret(Upper(text))
        [] op = "lowercase" -> Ret(Lower(text))
        [] op = "capitalize" -> Ret(Capitalize(text))
        [] op = "reverse" -> Ret(Reverse(text))
        [] op = "word_count" -> Ret(<<"Word count: ", WordCount(text)>>)
        [] op = "char_count" -> Ret(<<"Character count: ", Len(text)>>)
        [] OTHER -> Throw("Unknown operation")

(***************************************************************************)
(* generate_data.  Math.random() is a draw: "low" is 0, "high" is the      *)
(* largest value below 1.  The numbers in options are integers.            *)
(***************************************************************************)
Draws == {"low", "high"}

\* how often the body of for (let i = 0; i < v; i++) runs
Iterations(v) ==
  IF v.n < 0 \/ (v.n = 0 /\ ~v.half) THEN 0
  ELSE IF v.half THEN v.n + 1
  ELSE v.n

\* v || d, v a number that may be absent
OrDefault(v, d) ==
  IF v.t = "undefined" \/ (v.n = 0 /\ ~v.half) THEN Num(d) ELSE v

\* Math.floor(Math.random() * (max - min + 1)) + min
RandomNumber(min, max, r) ==
  LET span == max - min + 1
  IN  IF r = "low" \/ span = 0 THEN min
      ELSE IF span > 0 THEN max
      ELSE max + 1

\* one pass of the switch inside the loop: the item pushed to results
GenerateItem(type, options, r) ==
  CASE type = "uuid" -> <<"uuid", r>>
    [] type = "password" ->
         <<"password",
           Iterations(OrDefault(options.length, PasswordLengthDefault))>>
    [] type = "email" -> <<"email", r>>
    [] type = "phone" -> <<"phone", r>>
    [] type = "color" -> <<"color", r>>
    [] OTHER ->
         <<"number",
           RandomNumber(OrDefault(options.min, NumberMinDefault).n,
                        OrDefault(options.max, NumberMaxDefault).n, r)>>

\* count === 1 ? results[0] : results.join('\n')
generate_data(p, draws) ==
  LET n == Iterations(p.count)
      results == [k \in 1..n |-> GenerateItem(p.type, p.options, draws[k])]
  IN  Ret(IF p.count = Num(1) THEN results[1] ELSE results)

(***************************************************************************)
(* datetime_utility.  A date is a day number, day 0 being 2024-01-01, or   *)
(* the invalid date that new Date makes of any other text.                 *)
(***************************************************************************)

Day(d) == [valid |-> TRUE, day |-> d]

\* new Date(text)
NewDate(s) ==
  CASE s = <<"2024-01-01">> -> Day(0)
    [] s = <<"2024-01-03">> -> Day(2)
    [] OTHER -> [valid |-> FALSE, day |-> 0]

\* Date.prototype.toISOString()
toISOString(d) ==
  IF d.valid THEN Ret(<<"iso", d.day>>) ELSE Throw("Invalid time value")

\* Date.prototype.toLocaleDateString('en-US', { year, month, day })
toLocaleDateString(d) ==
  IF d.valid THEN Ret(<<"long", d.day>>) ELSE Ret(<<"Invalid Date">>)

\* Date.prototype.toLocaleString('en-US', { timeZone })
toLocaleString(d, zone) ==
  IF zone # <<"UTC">> THEN Throw("Invalid time zone specified")
  ELSE IF d.valid THEN Ret(<<"local", d.day, zone>>)
  ELSE Ret(<<"Invalid Date">>)

\* addDate.setDate(addDate.getDate() + days)
setDate(d, days) == IF d.valid THEN Day(d.day + days) ELSE d

\* Math.ceil(Math.abs(date2.getTime() - date1.getTime()) / (1000 * 60 * 60 * 24))
DiffDays(d1, d2) ==
  IF d1.valid /\ d2.valid THEN <<Abs(d2.day - d1.day), " days">>
                          ELSE <<"NaN", " days">>

\* the guards of the switch arms: the error thrown for a companion field
\* the operation needs and does not find, "" when none is thrown
\* the add_days guard written !days, which also refuses days = 0
DatetimeRequiredFalsyDays(p) ==
  CASE p.operation = "format" /\ Empty(p.date) -> "Date parameter required for format operation"
    [] p.operation = "add_days" /\ (Empty(p.date) \/ p.days.t = "undefined" \/ p.days = Num(0)) ->
         "Date and days parameters required"
    [] p.operation = "diff_days" /\ (Empty(p.date) \/ Empty(p.target_date)) ->
         "Date and target_date parameters required"
    [] p.operation = "timezone_convert"
         /\ (Empty(p.date) \/ Empty(p.timezone)) -> "Date and timezone parameters required"
    [] OTHER -> ""

DatetimeRequired(p) ==
  CASE p.operation = "format" /\ Empty(p.date) -> "Date parameter required for format operation"
    [] p.operation = "add_days" /\ (Empty(p.date) \/ p.days.t = "undefined") ->
         "Date and days parameters required"
    [] p.operation = "diff_days" /\ (Empty(p.date) \/ Empty(p.target_date)) ->
         "Date and target_date parameters required"
    [] p.operation = "timezone_convert"
         /\ (Empty(p.date) \/ Empty(p.timezone)) -> "Date and timezone parameters required"
    [] OTHER -> ""

datetime_utility(p, clock) ==
  LET op == p.operation
      req == DatetimeRequired(p)
  IN  IF req # "" THEN Throw(req)
      ELSE CASE op = "current" -> Ret(<<"iso-now", clock>>)
             [] op = "format" ->
                  IF ~Empty(p.format) THEN toLocaleDateString(NewDate(p.date.s))
                                      ELSE toISOString(NewDate(p.date.s))
             [] op = "add_days" ->
                  toISOString(setDate(NewDate(p.date.s), p.days.n))
             [] op = "diff_days" ->
                  Ret(DiffDays(NewDate(p.date.s), NewDate(p.target_date.s)))
             [] op = "timezone_convert" ->
                  toLocaleString(NewDate(p.date.s), p.timezone.s)
             [] OTHER -> Throw("Unknown operation")

(***************************************************************************)
(* json_utility.  A JSON text is the sequence of its tokens: brackets,     *)
(* braces, comma, colon, null, number literals, the double quote, the      *)
(* characters of a string, blank and line feed.  A parsed value is null,   *)
(* a number (Infinity apart), a string with its characters as items, an    *)
(* array of values, or an object with the pairs <<key, value>> in the      *)
(* order for-in enumerates them.                                           *)
(***************************************************************************)

JVal(t, n, items) == [t |-> t, n |-> n, items |-> items]


\* the characters JSON.parse skips between tokens
RECURSIVE SkipWs(_)
SkipWs(ts) ==
  IF ts # <<>> /\ Head(ts) \in {" ", "\n"} THEN SkipWs(Tail(ts)) ELSE ts

\* what a parsing step gives: a value and the text after it, or an error
Parsed(v, rest) == [ok |-> TRUE, value |-> v, rest |-> rest, error |-> ""]
ParseError(msg) ==
  [ok |-> FALSE, value |-> JVal("undefined", 0, <<>>), rest |-> <<>>,
   error |-> msg]

\* a string literal, its opening quote already read
ParseString(ts) ==
  LET Closing == {k \in 1..Len(ts) : ts[k] = "\""}
      k == CHOOSE x \in Closing : \A y \in Closing : x <= y
  IN  IF Closing = {} THEN ParseError("Unterminated string in JSON")
      ELSE IF \E x \in 1..(k - 1) : ts[x] = "\n"
        THEN ParseError("Bad control character in string literal in JSON")
      ELSE Parsed(JVal("string", 0, SubSeq(ts, 1, k - 1)),
                  SubSeq(ts, k + 1, Len(ts)))

\* a number literal: 1e999 is beyond the doubles and reads as Infinity
ParseNumber(tok) ==
  CASE tok = "0" -> JVal("number", 0, <<>>)
    [] tok \in {"7", "7.0"} -> JVal("number", 7, <<>>)
    [] OTHER -> JVal("Infinity", 0, <<>>)

\* obj[key] = value while parsing: a repeated key keeps its place and takes
\* the later value, an integer key goes before the other keys
Put(items, key, value) ==
  IF \E k \in 1..Len(items) : items[k][1] = key
    THEN [items EXCEPT ![CHOOSE k \in 1..Len(items) : items[k][1] = key] =
            <<key, value>>]
  ELSE IF key \in {<<"0">>, <<"7">>} THEN <<<<key, value>>>> \o items
  ELSE Append(items, <<key, value>>)

RECURSIVE ParseValue(_), ParseElements(_, _), ParseMembers(_, _)
ParseValue(text) ==
  LET ts == SkipWs(text)
  IN  IF ts = <<>> THEN ParseError("Unexpected end of JSON input")
      ELSE CASE Head(ts) = "null" -> Parsed(JVal("null", 0, <<>>), Tail(ts))
             [] Head(ts) \in {"0", "7", "7.0", "1e999"} ->
                  Parsed(ParseNumber(Head(ts)), Tail(ts))
             [] Head(ts) = "\"" -> ParseString(Tail(ts))
             [] Head(ts) = "[" ->
                  LET r == SkipWs(Tail(ts))
                  IN  IF r # <<>> /\ Head(r) = "]"
                        THEN Parsed(JVal("array", 0, <<>>), Tail(r))
                        ELSE ParseElements(Tail(ts), <<>>)
             [] Head(ts) = "{" ->
                  LET r == SkipWs(Tail(ts))
                  IN  IF r # <<>> /\ Head(r) = "}"
                        THEN Parsed(JVal("object", 0, <<>>), Tail(r))
                        ELSE ParseMembers(Tail(ts), <<>>)
             [] OTHER -> ParseError("Unexpected token")
ParseElements(text, acc) ==
  LET v == ParseValue(text)
      r == SkipWs(v.rest)
  IN  IF ~v.ok THEN v
      ELSE IF r = <<>> THEN ParseError("Unexpected end of JSON input")
      ELSE CASE Head(r) = "," -> ParseElements(Tail(r), Append(acc, v.value))
             [] Head(r) = "]" ->
                  Parsed(JVal("array", 0, Append(acc, v.value)), Tail(r))
             [] OTHER -> ParseError("Unexpected token")
ParseMembers(text, acc) ==
  LET ts == SkipWs(text)
      key == ParseString(Tail(ts))
      colon == SkipWs(key.rest)
      v == ParseValue(Tail(colon))
      r == SkipWs(v.rest)
  IN  IF ts = <<>> THEN ParseError("Unexpected end of JSON input")
      ELSE IF Head(ts) # "\"" THEN ParseError("Unexpected token")
      ELSE IF ~key.ok THEN key
      ELSE IF colon = <<>> THEN ParseError("Unexpected end of JSON input")
      ELSE IF Head(colon) # ":" THEN ParseError("Unexpected token")
      ELSE IF ~v.ok THEN v
      ELSE IF r = <<>> THEN ParseError("Unexpected end of JSON input")
      ELSE CASE Head(r) = "," ->
                  ParseMembers(Tail(r), Put(acc, key.value.items, v.value))
             [] Head(r) = "}" ->
                  Parsed(JVal("object", 0, Put(acc, key.value.items, v.value)),
                         Tail(r))
             [] OTHER -> ParseError("Unexpected token")

\* JSON.parse(text), the text given as the sequence of its tokens
JSONParse(s) ==
  LET v == ParseValue(s)
  IN  IF ~v.ok THEN Throw(v.error)
      ELSE IF SkipWs(v.rest) # <<>>
        THEN Throw("Unexpected non-whitespace character after JSON")
      ELSE Ret(v.value)

\* the decimal text of an array index
IndexKey(k) == CASE k = 1 -> <<"0">> [] k = 2 -> <<"1">> [] OTHER -> <<"2">>

\* the keys for (const key in v) goes through
KeysOf(v) ==
  CASE v.t = "object" -> [k \in 1..Len(v.items) |-> v.items[k][1]]
    [] v.t \in {"array", "string"} -> [k \in 1..Len(v.items) |-> IndexKey(k)]
    [] OTHER -> <<>>

\* v[key], v neither null nor undefined
Get(v, key) ==
  CASE v.t = "object" ->
         IF \E k \in 1..Len(v.items) : v.items[k][1] = key
           THEN v.items[CHOOSE k \in 1..Len(v.items) : v.items[k][1] = key][2]
           ELSE JVal("undefined", 0, <<>>)
    [] v.t = "array" ->
         IF \E k \in 1..Len(v.items) : IndexKey(k) = key
           THEN v.items[CHOOSE k \in 1..Len(v.items) : IndexKey(k) = key]
           ELSE JVal("undefined", 0, <<>>)
    [] v.t = "string" ->
         IF \E k \in 1..Len(v.items) : IndexKey(k) = key
           THEN JVal("string", 0,
                     <<v.items[CHOOSE k \in 1..Len(v.items) : IndexKey(k) = key]>>)
           ELSE JVal("undefined", 0, <<>>)
    [] OTHER -> JVal("undefined", 0, <<>>)

\* const extractKeys = (obj, prefix = '') => ...
RECURSIVE extractKeys(_, _), ExtractLoop(_, _, _)
extractKeys(obj, prefix) == ExtractLoop(KeysOf(obj), obj, prefix)
ExtractLoop(ks, obj, prefix) ==
  IF ks = <<>> THEN <<>>
  ELSE LET key == Head(ks)
           fullKey == IF prefix # <<>> THEN prefix \o <<".">> \o key ELSE key
           child == Get(obj, key)
       IN  <<fullKey>>
             \o (IF child.t = "object" THEN extractKeys(child, fullKey) ELSE <<>>)
             \o ExtractLoop(Tail(ks), obj, prefix)

\* JSON.stringify(value, null, indent), as the sequence of its tokens
Pad(k) == [j \in 1..k |-> " "]
NewLine(indent, depth) ==
  IF indent = 0 THEN <<>> ELSE <<"\n">> \o Pad(indent * depth)
RECURSIVE Stringify(_, _, _), StringifyItems(_, _, _, _)
Stringify(v, indent, depth) ==
  CASE v.t \in {"null", "Infinity"} -> <<"null">>
    [] v.t = "number" -> <<IF v.n = 7 THEN "7" ELSE "0">>
    [] v.t = "string" -> <<"\"">> \o v.items \o <<"\"">>
    [] v.items = <<>> -> IF v.t = "array" THEN <<"[", "]">> ELSE <<"{", "}">>
    [] OTHER ->
         <<IF v.t = "array" THEN "[" ELSE "{">>
           \o StringifyItems(v, 1, indent, depth + 1)
           \o NewLine(indent, depth)
           \o <<IF v.t = "array" THEN "]" ELSE "}">>
StringifyItems(v, k, indent, depth) ==
  IF k > Len(v.items) THEN <<>>
  ELSE (IF k > 1 THEN <<",">> ELSE <<>>)
         \o NewLine(indent, depth)
         \o (IF v.t = "array"
               THEN Stringify(v.items[k], indent, depth)
               ELSE <<"\"">> \o v.items[k][1] \o <<"\"", ":">>
                      \o (IF indent = 0 THEN <<>> ELSE <<" ">>)
                      \o Stringify(v.items[k][2], indent, depth))
         \o StringifyItems(v, k + 1, indent, depth)

\* if (!key_path) throw ...
KeyPathMissingOnlyUndefined(p) == p.key_path.t = "undefined"
KeyPathMissing(p) == Empty(p.key_path)

\* for (const key of keys) { value = value[key]; if (value === undefined) return null }
RECURSIVE Walk(_, _)
Walk(value, keys) ==
  IF keys = <<>> THEN Ret(value)
  ELSE IF value.t = "null" THEN Throw("Cannot read properties of null")
  ELSE LET next == Get(value, Head(keys))
       IN  IF next.t = "undefined" THEN Ret(JVal("null", 0, <<>>))
                                   ELSE Walk(next, Tail(keys))

\* a catch that answers 'Invalid JSON' whatever the operation
json_utilityCatchAll(p) ==
  LET op == p.operation
      parsed == JSONParse(p.json.s)
  IN  IF ~parsed.ok
        THEN Ret(<<"Invalid JSON: ", parsed.error>>)
        ELSE CASE op = "validate" -> Ret(<<"Valid JSON">>)
               [] op = "format" -> Ret(Stringify(parsed.value, JsonIndent, 0))
               [] op = "minify" -> Ret(Stringify(parsed.value, 0, 0))
               [] op = "extract_keys" -> Ret(extractKeys(parsed.value, <<>>))
               [] op = "extract_values" ->
                    IF KeyPathMissing(p)
                      THEN Throw("key_path required for extract_values operation")
                      ELSE Walk(parsed.value, Split(p.key_path.s, "."))
               [] OTHER -> Throw("Unknown operation")

json_utility(p) ==
  LET op == p.operation
      parsed == JSONParse(p.json.s)
  IN  IF ~parsed.ok
        THEN IF op = "validate" THEN Ret(<<"Invalid JSON: ", parsed.error>>)
                                ELSE Throw(parsed.error)
        ELSE CASE op = "validate" -> Ret(<<"Valid JSON">>)
               [] op = "format" -> Ret(Stringify(parsed.value, JsonIndent, 0))
               [] op = "minify" -> Ret(Stringify(parsed.value, 0, 0))
               [] op = "extract_keys" -> Ret(extractKeys(parsed.value, <<>>))
               [] op = "extract_values" ->
                    IF KeyPathMissing(p)
                      THEN Throw("key_path required for extract_values operation")
                      ELSE Walk(parsed.value, Split(p.key_path.s, "."))
               [] OTHER -> Throw("Unknown operation")

(***************************************************************************)
(* A call of a core tool.  The handlers have no await: validation and      *)
(* execute are one step.                                                   *)
(***************************************************************************)
execute(tool, p, draws, clock) ==
  CASE tool = "hello_world" -> Ret(generateGreeting(p.name.s))
    [] tool = "goodbye" -> Ret(generateFarewell(p.name.s))
    [] tool = "calculate" -> calculate(p)
    [] tool = "text_transform" -> text_transform(p)
    [] tool = "generate_data" -> generate_data(p, draws)
    [] tool = "datetime_utility" -> datetime_utility(p, clock)
    [] OTHER -> json_utility(p)

\* the strings of at most n characters
RECURSIVE Texts(_)
Texts(n) ==
  IF n = 0 THEN {<<>>}
  ELSE Texts(n - 1) \cup {Append(s, ch) : s \in Texts(n - 1), ch \in Alphabet}

\* the JSON texts of at most n tokens in which no two number literals adjoin
JsonAlphabet == {"[", "]", "null", "7", "1e999", "\"", "a", " "}
RECURSIVE JsonTexts(_)
JsonTexts(n) ==
  IF n = 0 THEN {<<>>}
  ELSE LET shorter == JsonTexts(n - 1)
           Adjoin(s, tok) ==
             s # <<>> /\ {s[Len(s)], tok} \subseteq {"7", "1e999"}
       IN  shorter \cup {Append(p[1], p[2]) :
                           p \in {q \in shorter \X JsonAlphabet :
                                    ~Adjoin(q[1], q[2])}}

\* longer texts: objects, nested, pretty-printed, with a repeated key, with
\* an integer key after another key; and malformed ones
NestedText ==
  <<"{", " ", "\"", "a", "\"", ":", " ", "{", " ", "\"", "b", "\"", ":", " ",
    "null", " ", "}", ",", " ", "\"", "c", "\"", ":", " ", "[", "7", "]", " ",
    "}">>
LongTexts ==
  {NestedText,
   <<"{", "}">>,
   <<" ", "{", "\n", "}", " ">>,
   <<"[", "\n", " ", " ", "7.0", ",", "\n", " ", " ", "0", "\n", "]">>,
   <<"[", "7", ",", "1e999", "]">>,
   <<"{", "\"", "a", "\"", ":", "7", ",", "\"", "a", "\"", ":", "null", "}">>,
   <<"{", "\"", "a", "\"", ":", "\"", "a", " ", "\"", ",", "\"", "7", "\"", ":",
     "[", "]", "}">>,
   <<"not json">>,
   <<"[", "7", ",", "]">>,
   <<"{", "\"", "a", "\"", " ", "7", "}">>,
   <<"{", "\"", "a", "\"", ":", "7">>,
   <<"\"", "a", "\n", "\"">>,
   <<"[", "7", "]", "]">>}

\* the argument bags a client may send to a core tool, texts being the
\* short JSON texts tried besides the longer ones
CoreArgBags(tool, texts) ==
  CASE tool \in {"hello_world", "goodbye"} ->
         {[NoCoreArgs EXCEPT !.name = n] :
            n \in {UndefStr, NumAsStr, Str(<<>>), Str(<<"a">>)}}
    [] tool = "calculate" ->
         {[NoCoreArgs EXCEPT !.operation = op, !.a = x, !.b = y] :
            op \in CalculateOps \cup {Undefined, "modulo"},
            x \in {UndefNum, StrNum} \cup {Num(k) : k \in -MaxNum..MaxNum},
            y \in {UndefNum, StrNum} \cup {Num(k) : k \in -MaxNum..MaxNum}}
    [] tool = "text_transform" ->
         {[NoCoreArgs EXCEPT !.operation = op, !.text = s] :
            op \in TextOps \cup {"rot13"},
            s \in {UndefStr} \cup {Str(x) : x \in Texts(MaxText)}}
    [] tool = "generate_data" ->
         {[NoCoreArgs EXCEPT !.type = ty, !.count = n, !.options = o] :
            ty \in DataTypes \cup {"name"},
            n \in {UndefNum, StrNum, Num(0), Frac(1), Num(CountMax + 1)}
                    \cup {Num(k) : k \in 1..MaxCount},
            o \in {NoOptions, Options(StrNum, UndefNum, UndefNum)}
                    \cup {Options(l, lo, hi) : l \in {UndefNum, Num(0), Num(2)},
                                               lo \in {UndefNum, Num(0), Num(2)},
                                               hi \in {UndefNum, Num(0), Num(3)}}}
    [] tool = "datetime_utility" ->
         {[NoCoreArgs EXCEPT !.operation = op, !.date = d, !.format = f,
                             !.days = n, !.target_date = t, !.timezone = z] :
            op \in DatetimeOps \cup {"tomorrow"},
            d \in {UndefStr, NumAsStr, Str(<<>>), Str(<<"2024-01-01">>),
                   Str(<<"2024-01-03">>), Str(<<"soon">>)},
            f \in {UndefStr, Str(<<"long">>)},
            n \in {UndefNum, Num(0), Num(1)},
            t \in {UndefStr, Str(<<>>), Str(<<"2024-01-03">>)},
            z \in {UndefStr, Str(<<>>), Str(<<"UTC">>), Str(<<"Mars/Phobos">>)}}
    [] OTHER ->
         {[NoCoreArgs EXCEPT !.operation = op, !.json = j, !.key_path = k] :
            op \in JsonOps \cup {"sort"},
            j \in {UndefStr, Str(<<>>), Str(<<"null">>), Str(<<"7">>)}
                    \cup {Str(x) : x \in LongTexts},
            k \in {UndefStr, NumAsStr, Str(<<>>), Str(<<"a">>),
                   Str(<<"a", ".", "b">>), Str(<<"a", ".", "b", ".", "x">>),
                   Str(<<"c", ".", "0">>), Str(<<"x">>)}}
         \cup
         {[NoCoreArgs EXCEPT !.operation = op, !.json = Str(x), !.key_path = k] :
            op \in JsonOps,
            x \in texts,
            k \in {UndefStr, Str(<<"0">>)}}

CallCoreTool(i, texts) ==
  /\ calls[i].pc = "idle"
  /\ \E tool \in CoreToolNames :
       \E a \in CoreArgBags(tool, texts),
          draws \in IF tool = "generate_data" THEN [1..MaxCount + 1 -> Draws]
                                              ELSE {[k \in 1..MaxCount + 1 |-> "low"]} :
         LET issues == CoreSchemaIssues(tool, a)
             c == [IdleCall EXCEPT !.pc = "done", !.tool = tool,
                                   !.variant = "core", !.args = a]
             r == execute(tool, CoreParams(tool, a), draws, now)
         IN  calls' = [calls EXCEPT ![i] =
               IF issues # {}
                 THEN [c EXCEPT !.result = Rejected(issues)]
                 ELSE [c EXCEPT !.invoked = TRUE,
                                !.raised = r.error,
                                !.result = IF r.ok THEN PlainJson(r.value)
                                                   ELSE Thrown(r.error)]]
  /\ UNCHANGED <<server, env, fs, tempDir, pendingOpen, sessions, now>>

(***************************************************************************)
(* One call of any registered tool: registerTools adds the seven core      *)
(* tools and then the four Instagram tools.                                *)
(***************************************************************************)

NextTools ==
  \/ CallCoreTool(1, {})
  \/ Invoke(1, AllInputs)
  \/ LoginDone(1)
  \/ FetchDone(1)
  \/ StreamOpen(1)
  \/ StreamDone(1)
  \/ ReadDone(1)
  \/ PublishDone(1)
  \/ ProfileDone(1)
  \/ FeedDone(1, AllFeeds)
  \/ LateOpen
  \/ Tick

SpecTools == InitCall /\ [][NextTools]_vars

(***************************************************************************)
(* One call of a core tool.                                                *)
(***************************************************************************)
InitCore ==
  /\ InitCall
  /\ env = [IG_USERNAME |-> "alice", IG_PASSWORD |-> "alice"]

NextCore ==
  \/ CallCoreTool(1, JsonTexts(MaxTokens))
  \/ Tick

SpecCore == InitCore /\ [][NextCore]_vars

(***************************************************************************)
(* Start-up and the docs and snippets resources.  load looks the pair up   *)
(* in an object literal with table[a]?.[b], which also finds what the      *)
(* object inherits: Object.prototype for the tables, Function.prototype    *)
(* for a function found at the first level.                                *)
(***************************************************************************)

\* const templates = { readme: { basic }, api: { endpoint }, ... }
templates ==
  [readme |-> [basic |-> "# Project Name"],
   api |-> [endpoint |-> "## API Endpoint: {endpoint_name}"],
   guide |-> [tutorial |-> "# Tutorial: {tutorial_name}"],
   changelog |-> [release |-> "# Changelog"]]

\* const snippets = { javascript: { utils, examples }, python: { utils } }
snippets ==
  [javascript |-> [utils |-> "// Utility functions",
                   examples |-> "// API request example"],
   python |-> [utils |-> "# Utility functions"]]

\* a property value: undefined, a string, a number, or a function with its
\* name and length
Prop(kind, text, n) == [kind |-> kind, text |-> text, n |-> n]

\* what a plain object inherits under this key
ObjectPrototype(key) ==
  CASE key = "constructor" -> Prop("function", "Object", 1)
    [] key = "toString" -> Prop("function", "toString", 0)
    [] OTHER -> Prop("undefined", "", 0)

\* table[a]?.[b]
Lookup(table, a, b) ==
  IF a \in DOMAIN table
    THEN IF b \in DOMAIN table[a] THEN Prop("string", table[a][b], 0)
                                  ELSE ObjectPrototype(b)
  ELSE IF ObjectPrototype(a).kind = "function"
    THEN CASE b = "name" -> Prop("string", ObjectPrototype(a).text, 0)
           [] b = "length" -> Prop("number", "", ObjectPrototype(a).n)
           [] b = "constructor" -> Prop("function", "Function", 1)
           [] b = "toString" -> Prop("function", "toString", 0)
           [] OTHER -> Prop("undefined", "", 0)
  ELSE Prop("undefined", "", 0)

\* if (!found) throw new Error(`... not found: ${a}/${b}`); return { text: found }
load(table, a, b, notFound) ==
  LET found == Lookup(table, a, b)
  IN  IF \/ found.kind = "undefined"
         \/ found.kind = "string" /\ found.text = ""
         \/ found.kind = "number" /\ found.n = 0
        THEN Throw(notFound)
        ELSE Ret(found)

\* the names a client may put in a resource URI
ResourceNames ==
  {"readme", "api", "guide", "changelog", "basic", "endpoint", "tutorial",
   "release", "javascript", "python", "utils", "examples", "constructor",
   "toString", "name", "length", "missing", ""}

\* a resources/read request for a docs:// or snippets:// URI
ReadResource(i) ==
  /\ calls[i].pc = "idle"
  /\ \E uri \in {"docs://{type}/{template}", "snippets://{language}/{category}"} :
       /\ \E k \in 1..Len(server.resources) : server.resources[k] = uri
       /\ \E a, b \in ResourceNames :
            LET r == IF uri = "docs://{type}/{template}"
                       THEN load(templates, a, b, "Template not found")
                       ELSE load(snippets, a, b, "Snippet not found")
            IN  calls' = [calls EXCEPT ![i] =
                  [IdleCall EXCEPT !.pc = "done", !.tool = uri,
                                   !.variant = "resource", !.invoked = TRUE,
                                   !.args = <<a, b>>,
                                   !.raised = r.error,
                                   !.result = IF r.ok THEN PlainJson(r.value)
                                                      ELSE Thrown(r.error)]]
  /\ UNCHANGED <<server, env, fs, tempDir, pendingOpen, sessions, now>>

\* start-up calls each register function once
Register(name) ==
  /\ name \notin server.ran
  /\ server' = CASE name = "registerTools" -> registerTools(server)
                 [] name = "registerPrompts" -> registerPrompts(server)
                 [] OTHER -> registerResources(server)
  /\ UNCHANGED <<env, calls, fs, tempDir, pendingOpen, sessions, now>>

InitServer ==
  /\ env = [IG_USERNAME |-> "alice", IG_PASSWORD |-> "alice"]
  /\ calls = [i \in Calls |-> IdleCall]
  /\ fs = <<>>
  /\ tempDir = FALSE
  /\ pendingOpen = {}
  /\ sessions = {}
  /\ now = 0
  /\ server = NewServer

NextServer ==
  \/ Register("registerTools")
  \/ Register("registerPrompts")
  \/ Register("registerResources")
  \/ ReadResource(1)

SpecServer == InitServer /\ [][NextServer]_vars

(***************************************************************************)
(* The claims.                                                             *)
(***************************************************************************)
IsUrlPhoto(c) == c.variant = "url" /\ c.tool = "instagram_upload_photo"
IsUrlVideo(c) == c.variant = "url" /\ c.tool = "instagram_upload_video"
IsFailureJson(r) == r.kind = "returned" /\ r.hasSuccess /\ ~r.success

C2_FailedDownloadLeavesNoFile ==
  \A i \in Calls :
    LET c == calls[i] IN
    (c.pc = "done" /\ c.raised \in {"Failed to download file: Not Found", "aborted"})
      => (IsFailureJson(c.result) /\ c.cur \notin c.left)

\* C3: once the video is staged, nothing that fails afterwards (the cover
\* download, the publish step, the removal of the other file) leaves a file
\* of the invocation behind; a file stays only if its own removal threw.
C3_NoVideoFileLeftBehind ==
  \A i \in Calls :
    LET c == calls[i] IN
    (c.pc = "done" /\ IsUrlVideo(c) /\ c.localVideoPath # NoPath)
      => c.left \subseteq c.unlinkThrew

\* What does hold for C3: the two assigned paths are cleaned independently.
C3_AssignedPathsCleanedIndependently ==
  \A i \in Calls :
    LET c == calls[i] IN
    (c.pc = "done" /\ IsUrlVideo(c))
      => \A p \in Staged(c) : p \in c.left => p \in c.unlinkThrew

\* C4: two invocations in flight together never hold the same staged path.
InFlight(c) == c.pc \notin {"idle", "done"}
HeldPaths(c) == (Staged(c) \cup {c.cur}) \ {NoPath}
C4_NoSharedStagedPath ==
  \A i, j \in Calls :
    (i # j /\ InFlight(calls[i]) /\ InFlight(calls[j]))
      => HeldPaths(calls[i]) \cap HeldPaths(calls[j]) = {}

\* C5: every failure raised while a handler runs ends the call with the
\* result {success: false, error: <the failure's message>}; none escapes.
C5_FailuresBecomeResults ==
  \A i \in Calls :
    LET c == calls[i] IN
    (c.pc = "done" /\ c.invoked /\ c.raised # "")
      => (IsFailureJson(c.result) /\ c.result.error = c.raised)

\* C6: with credentials neither in the call nor in the environment, the call
\* fails, no login, download or platform call is made, and (the other
\* arguments being valid) the failure is the missing credentials.
C6_NoCredentialsNoExternalCall ==
  \A i \in Calls :
    LET c == calls[i]
        r == c.result
    IN
    (c.pc = "done" /\ c.tool \in InstagramToolNames /\ ~c.credsInCall
       /\ (Falsy(env.IG_USERNAME) \/ Falsy(env.IG_PASSWORD)))
      => /\ r.kind \in {"rejected", "threw"}
         /\ c.nLogin = 0 /\ c.nFetch = 0 /\ c.nPlatform = 0
         /\ c.ig = <<>> /\ c.created = {}
         /\ c.variant = "env" /\ r.kind = "threw" => r.error = CredentialsError
         /\ c.variant = "env" /\ r.kind = "rejected" =>
              r.issues \cap {"username", "password"} = {}
         /\ c.variant = "url" =>
              r.kind = "rejected" /\ r.issues \cap {"username", "password"} # {}

\* C6's case: IG_PASSWORD is empty and the env version's handler stops at
\* getCredentials.
C6_Witness ==
  \E i \in Calls :
    LET c == calls[i] IN
    /\ c.pc = "done" /\ c.variant = "env" /\ c.invoked
    /\ env.IG_USERNAME = "alice" /\ env.IG_PASSWORD = ""
    /\ c.result = Thrown(CredentialsError)
    /\ c.nLogin = 0

\* C7, as amended: an invocation logs in at most once, and exactly once
\* unless it ended at getCredentials; it logs in before any platform
\* operation, uses only the client that login returned, and no client is
\* held or used by two invocations.
C7_OwnLoginOwnSession ==
  \A i \in Calls :
    LET c == calls[i] IN
    /\ c.nLogin <= 1
    /\ (c.pc = "done" /\ c.invoked /\ c.raised # CredentialsError) => c.nLogin = 1
    /\ c.raised = CredentialsError => c.nLogin = 0
    /\ c.used # {} => (c.nLogin = 1 /\ c.ig \in sessions /\ c.used = {c.ig})
    /\ \A j \in Calls \ {i} :
         c.ig # <<>> => (calls[j].ig # c.ig /\ c.ig \notin calls[j].used)

\* C7 as stated: every invocation logs in exactly once.
C7_EveryInvocationLogsInOnce ==
  \A i \in Calls :
    LET c == calls[i] IN
    (c.pc = "done" /\ c.invoked) => c.nLogin = 1

\* C7's case: two invocations have each used a client of their own.
C7_Witness ==
  \E i, j \in Calls :
    /\ i # j
    /\ calls[i].used # {} /\ calls[j].used # {}
    /\ calls[i].pc = "done" /\ InFlight(calls[j])
    /\ calls[i].tool = "instagram_get_timeline"
    /\ calls[j].tool = "instagram_get_profile"

\* C8: for a limit L in 1..50 and a feed of n items, instagram_get_timeline
\* returns the first min(L, n) items of the feed and does not fail.
C8_TimelineReturnsFirstItems ==
  \A i \in Calls :
    LET c == calls[i] IN
    (c.pc = "done" /\ c.tool = "instagram_get_timeline" /\ c.feedSize >= 0)
      => /\ c.result.kind = "returned"
         /\ c.result.payload = SubSeq(Feed(c.feedSize), 1, Min(c.limit.n, c.feedSize))

\* What does hold for C8: the same, with the getTimelineFeed that returns
\* feed.items() as it is.
C8_PlainFeedReturnsFirstItems ==
  \A i \in Calls :
    LET c == calls[i] IN
    (c.pc = "done" /\ c.tool = "instagram_get_timeline" /\ c.feedSize >= 0
       /\ c.adapter = "plain")
      => /\ c.result.kind = "returned"
         /\ c.result.payload = SubSeq(Feed(c.feedSize), 1, Min(c.limit.n, c.feedSize))

\* C9: the limit is validated before the handler runs: absent, it becomes
\* 10; not an integer in 1..50, the call is rejected and the handler (and so
\* login) never runs; otherwise the handler receives it unchanged.
InLimitRange(v) ==
  v.t = "number" /\ ~v.half /\ v.n >= LimitMin /\ v.n <= LimitMax
C9_LimitValidatedFirst ==
  \A i \in Calls :
    LET c == calls[i] IN
    (c.tool = "instagram_get_timeline" /\ c.pc # "idle")
      => /\ c.rawLimit.t = "undefined" =>
              ("limit" \notin c.result.issues /\ (c.invoked => c.limit = Num(10)))
         /\ (c.rawLimit.t # "undefined" /\ ~InLimitRange(c.rawLimit)) =>
              /\ ~c.invoked /\ c.nLogin = 0 /\ c.pc = "done"
              /\ c.result.kind = "rejected" /\ "limit" \in c.result.issues
         /\ InLimitRange(c.rawLimit) =>
              ("limit" \notin c.result.issues /\ (c.invoked => c.limit = c.rawLimit))
         /\ c.invoked => InLimitRange(c.limit)

\* C9's case: a limit of 51 alone is rejected, and an absent limit ran as 10.
C9_Witness ==
  \E i \in Calls :
    LET c == calls[i] IN
    /\ c.tool = "instagram_get_timeline" /\ c.pc = "done"
    /\ c.rawLimit = Num(LimitMax + 1)
    /\ c.result = Rejected({"limit"})

\* C10, as amended: a call that satisfies its tool's schema never fails
\* over the type of a field, and fails over a missing field in these cases
\* only, and in each of them: datetime_utility format without a non-empty
\* date, add_days without a non-empty date or without days, diff_days
\* without a non-empty date and target_date, timezone_convert without a
\* non-empty date and timezone, and json_utility extract_values on
\* well-formed json without a non-empty key_path.
RequiredFieldErrors ==
  {"Date parameter required for format operation",
   "Date and days parameters required",
   "Date and target_date parameters required",
   "Date and timezone parameters required",
   "key_path required for extract_values operation", "Limit must be an integer"}
Absent(v) == v.t = "undefined" \/ (v.t = "string" /\ v.s = <<>>)
CompanionAbsent(c) ==
  LET a == c.args IN
  \/ /\ c.tool = "datetime_utility"
     /\ \/ a.operation = "format" /\ Absent(a.date)
        \/ a.operation = "add_days" /\ (Absent(a.date) \/ a.days.t = "undefined")
        \/ a.operation = "diff_days" /\ (Absent(a.date) \/ Absent(a.target_date))
        \/ a.operation = "timezone_convert"
             /\ (Absent(a.date) \/ Absent(a.timezone))
  \/ /\ c.tool = "json_utility"
     /\ a.operation = "extract_values"
     /\ JSONParse(a.json.s).ok
     /\ Absent(a.key_path)
C10_SchemaValidFailsOnlyForCompanions ==
  \A i \in Calls :
    LET c == calls[i] IN
    (c.pc = "done" /\ c.invoked)
      => /\ c.raised \in RequiredFieldErrors <=> CompanionAbsent(c)
         /\ c.raised \in RequiredFieldErrors => c.result = Thrown(c.raised)

\* C10 as stated: no schema-valid call fails over a missing field.
C10_SchemaValidNeverFailsForField ==
  \A i \in Calls :
    LET c == calls[i] IN
    (c.pc = "done" /\ c.invoked) => c.raised \notin RequiredFieldErrors

\* C10's case: extract_values with well-formed json and an empty key_path,
\* which the schema accepts, fails with the key_path error.
C10_Witness ==
  \E i \in Calls :
    LET c == calls[i] IN
    /\ c.pc = "done" /\ c.invoked /\ c.tool = "json_utility"
    /\ c.args.operation = "extract_values"
    /\ c.args.json = Str(NestedText)
    /\ c.args.key_path = Str(<<>>)
    /\ c.result = Thrown("key_path required for extract_values operation")

\* C11: calculate with operation divide and b = 0 fails with the
\* division-by-zero error for every a, a = 0 included, and returns no result
\* text; with b # 0 no calculate call raises that error.
IsDone(c, tool) == c.pc = "done" /\ c.invoked /\ c.tool = tool
C11_DivideByZeroFails ==
  \A i \in Calls :
    LET c == calls[i]
        a == c.args
    IN  IsDone(c, "calculate") =>
          IF a.operation = "divide" /\ a.b = Num(0)
            THEN c.result = Thrown("Division by zero is not allowed")
            ELSE /\ c.raised # "Division by zero is not allowed"
                 /\ c.result.kind = "returned"

\* C11's case: 0 divided by 0 has failed.
C11_Witness ==
  \E i \in Calls :
    LET c == calls[i] IN
    /\ IsDone(c, "calculate")
    /\ c.args.operation = "divide" /\ c.args.a = Num(0) /\ c.args.b = Num(0)
    /\ c.result.kind = "threw"

\* C12: for integers a, b of the range, calculate reports a + b for add,
\* a - b for subtract and a * b for multiply, exactly, next to the operands
\* and the operation it was asked for.
C12_ArithmeticExact ==
  \A i \in Calls :
    LET c == calls[i]
        a == c.args
        x == a.a.n
        y == a.b.n
        v == CASE a.operation = "add" -> x + y
               [] a.operation = "subtract" -> x - y
               [] OTHER -> x * y
    IN  (IsDone(c, "calculate") /\ a.operation \in {"add", "subtract", "multiply"})
          => c.result = PlainJson(<<x, a.operation, y, [num |-> v, den |-> 1]>>)

\* C12's case: 2 subtract -2 has returned 4.
C12_Witness ==
  \E i \in Calls :
    LET c == calls[i] IN
    /\ IsDone(c, "calculate")
    /\ c.args.operation = "subtract" /\ c.args.a = Num(2) /\ c.args.b = Num(-2)
    /\ c.result.payload = <<2, "subtract", -2, [num |-> 4, den |-> 1]>>

\* C13: text_transform reverse returns a text as long as its input, and
\* reversing that result gives the input back.
C13_ReverseInvolution ==
  \A i \in Calls :
    LET c == calls[i]
        s == c.args.text.s
        r == c.result.payload
        again == text_transform([c.args EXCEPT !.text = Str(r)])
    IN  (IsDone(c, "text_transform") /\ c.args.operation = "reverse")
          => /\ c.result.kind = "returned"
             /\ Len(r) = Len(s)
             /\ again.ok /\ again.value = s

\* C13's case: "aB" has been reversed to "Ba".
C13_Witness ==
  \E i \in Calls :
    LET c == calls[i] IN
    /\ IsDone(c, "text_transform") /\ c.args.operation = "reverse"
    /\ c.args.text = Str(<<"a", "B">>)
    /\ c.result.payload = <<"B", "a">>

\* C14: generate_data runs only for a count that is absent or an integer
\* in 1..100, and then produces exactly count items (one when absent).
ItemCount(c) ==
  IF CountSchema(c.args.count).value = Num(1) THEN 1 ELSE Len(c.result.payload)
C14_CountIsIntegerInRange ==
  \A i \in Calls :
    LET c == calls[i]
        n == c.args.count
    IN  (c.pc = "done" /\ c.tool = "generate_data"
           /\ c.result.issues \subseteq {"count"})
          => /\ c.invoked <=> \/ n.t = "undefined"
                              \/ n.t = "number" /\ ~n.half /\ n.n \in 1..100
             /\ c.invoked =>
                  ItemCount(c) = IF n.t = "undefined" THEN 1 ELSE n.n

\* C15: on well-formed json, format and minify each return a text that
\* parses to the structure the input parses to, format applied to the
\* output of minify does so too, and minify applied to its own output
\* returns it unchanged.
KeepsStructure(c) ==
  LET J == JSONParse(c.args.json.s).value
      out == c.result.payload
      Apply(op, text) ==
        json_utility([c.args EXCEPT !.operation = op, !.json = Str(text)])
  IN  /\ c.result.kind = "returned"
      /\ JSONParse(out).ok /\ JSONParse(out).value = J
      /\ c.args.operation = "minify" =>
           /\ Apply("minify", out) = Ret(out)
           /\ Apply("format", out).ok
           /\ JSONParse(Apply("format", out).value) = Ret(J)
IsReprint(c) ==
  /\ IsDone(c, "json_utility") /\ c.args.operation \in {"format", "minify"}
  /\ JSONParse(c.args.json.s).ok
C15_FormatMinifyKeepStructure ==
  \A i \in Calls : IsReprint(calls[i]) => KeepsStructure(calls[i])

\* What holds of C15: the structure is kept when no number literal of the
\* text is beyond the range of the doubles.
C15_KeptWithoutOverflow ==
  \A i \in Calls :
    LET c == calls[i] IN
    (IsReprint(c) /\ \A k \in 1..Len(c.args.json.s) : c.args.json.s[k] # "1e999")
      => KeepsStructure(c)

\* C16: on malformed json, validate returns the text 'Invalid JSON: ' with
\* the parse error and does not fail, while format, minify, extract_keys
\* and extract_values fail with the parse error; on well-formed json,
\* validate returns 'Valid JSON'.
C16_OnlyValidateSurvivesMalformed ==
  \A i \in Calls :
    LET c == calls[i]
        parsed == JSONParse(c.args.json.s)
    IN  IsDone(c, "json_utility") =>
          IF c.args.operation = "validate"
            THEN c.result = PlainJson(IF parsed.ok
                                        THEN <<"Valid JSON">>
                                        ELSE <<"Invalid JSON: ", parsed.error>>)
            ELSE ~parsed.ok => /\ c.result.kind = "threw"
                               /\ c.result.error = parsed.error
                               /\ c.raised = parsed.error

\* C16's case: extract_values on the malformed text [7,] with no key_path
\* has failed with the parse error.
C16_Witness ==
  \E i \in Calls :
    LET c == calls[i] IN
    /\ IsDone(c, "json_utility") /\ c.args.operation = "extract_values"
    /\ c.args.json = Str(<<"[", "7", ",", "]">>)
    /\ c.args.key_path = UndefStr
    /\ c.result = Thrown("Unexpected token")

\* C17, as amended: datetime_utility fails with the error that names the
\* required parameters exactly when a companion field of the operation is
\* absent or is the empty string: date for format; date or days for
\* add_days, days = 0 being present; date or target_date for diff_days;
\* date or timezone for timezone_convert.  current never fails.
CompanionError(op) ==
  CASE op = "format" -> "Date parameter required for format operation"
    [] op = "add_days" -> "Date and days parameters required"
    [] op = "diff_days" -> "Date and target_date parameters required"
    [] op = "timezone_convert" -> "Date and timezone parameters required"
    [] OTHER -> "none"
C17_FailsWhenCompanionAbsentOrEmpty ==
  \A i \in Calls :
    LET c == calls[i]
        a == c.args
        missing ==
          \/ a.operation # "current" /\ (a.date.t = "undefined" \/ a.date.s = <<>>)
          \/ a.operation = "add_days" /\ a.days.t = "undefined"
          \/ a.operation = "diff_days"
               /\ (a.target_date.t = "undefined" \/ a.target_date.s = <<>>)
          \/ a.operation = "timezone_convert"
               /\ (a.timezone.t = "undefined" \/ a.timezone.s = <<>>)
    IN  IsDone(c, "datetime_utility") =>
          /\ c.result = Thrown(CompanionError(a.operation)) <=> missing
          /\ c.raised \in {CompanionError(op) : op \in DatetimeOps} => missing
          /\ a.operation = "current" => c.result.kind = "returned"

\* C17 as stated: the error comes exactly when a companion field is absent.
C17_FailsExactlyWhenCompanionAbsent ==
  \A i \in Calls :
    LET c == calls[i]
        a == c.args
        absent ==
          \/ a.operation # "current" /\ a.date.t = "undefined"
          \/ a.operation = "add_days" /\ a.days.t = "undefined"
          \/ a.operation = "diff_days" /\ a.target_date.t = "undefined"
          \/ a.operation = "timezone_convert" /\ a.timezone.t = "undefined"
    IN  IsDone(c, "datetime_utility") =>
          (c.result = Thrown(CompanionError(a.operation)) <=> absent)

\* C17's case: add_days with an empty date and days = 0 has failed with the
\* error naming date and days.
C17_Witness ==
  \E i \in Calls :
    LET c == calls[i] IN
    /\ IsDone(c, "datetime_utility") /\ c.args.operation = "add_days"
    /\ c.args.date = Str(<<>>) /\ c.args.days = Num(0)
    /\ c.result = Thrown("Date and days parameters required")

\* C18: a docs:// or snippets:// read returns content if and only if its
\* pair of names is a combination of the resource's lookup table, and fails
\* with the resource's 'not found' error for every other pair.
IsRead(c) == c.pc = "done" /\ c.variant = "resource"
TableOf(c) == IF c.tool = "docs://{type}/{template}" THEN templates ELSE snippets
InTable(c) ==
  /\ c.args[1] \in DOMAIN TableOf(c)
  /\ c.args[2] \in DOMAIN TableOf(c)[c.args[1]]
C18_ContentIffInTable ==
  \A i \in Calls :
    LET c == calls[i] IN
    IsRead(c) =>
      IF InTable(c)
        THEN c.result = PlainJson(Prop("string", TableOf(c)[c.args[1]][c.args[2]], 0))
        ELSE c.result = Thrown(IF c.tool = "docs://{type}/{template}"
                                 THEN "Template not found"
                                 ELSE "Snippet not found")

\* What holds of C18: the claim is true of the pairs in which neither name
\* is one that objects inherit.
C18_ContentIffInTableForOwnNames ==
  \A i \in Calls :
    LET c == calls[i] IN
    (IsRead(c) /\ {c.args[1], c.args[2]} \cap {"constructor", "toString"} = {})
      => (c.result.kind = "returned" <=> InTable(c))

\* C19: once registerTools, registerPrompts and registerResources have run,
\* the tool names are pairwise distinct, and so are the prompt names and
\* the URI templates.
Distinct(names) ==
  \A j, k \in 1..Len(names) : names[j] = names[k] => j = k
C19_RegisteredNamesDistinct ==
  server.ran = {"registerTools", "registerPrompts", "registerResources"}
    => /\ Distinct(server.tools)
       /\ Distinct(server.prompts)
       /\ Distinct(server.resources)

\* C19's case: registration is complete, with eleven tools, eight prompts
\* and eight resource templates.
C19_Witness ==
  /\ server.ran = {"registerTools", "registerPrompts", "registerResources"}
  /\ Len(server.tools) = 11
  /\ Len(server.prompts) = 8
  /\ Len(server.resources) = 8

\* C20: an upload call of the url version ends with the result of its
\* body, success or {success: false, error: <the failure raised>}, whether
\* or not unlinkSync threw in the finally block and whether or not the
\* staged file was still there; the removal's failure is in no result.
C20_CleanupFailureNotReported ==
  \A i \in Calls :
    LET c == calls[i] IN
    (c.pc = "done" /\ c.invoked /\ (IsUrlPhoto(c) \/ IsUrlVideo(c)))
      => /\ c.result.kind = "returned"
         /\ c.result.error = c.raised
         /\ c.result.success <=> c.raised = ""
         /\ c.raised # "EPERM: operation not permitted, unlink"

\* C20's case: the photo was published, unlinkSync threw on the staged
\* file, and the call still ended with the success result.
C20_Witness ==
  \E i \in Calls :
    LET c == calls[i] IN
    /\ c.pc = "done" /\ IsUrlPhoto(c)
    /\ c.unlinkThrew = {c.localFilePath}
    /\ c.result.success

\* C21: within one invocation login is attempted at most once, each
\* download at most once (the cover only after the video has arrived), and
\* the platform operation at most once; a failure ends the invocation at
\* once, with a failure as its outcome, and nothing that comes after the
\* failed step has been attempted.
C21_NoRetry ==
  \A i \in Calls :
    LET c == calls[i] IN
    /\ c.nLogin <= 1
    /\ c.nFetch <= (IF c.tool = "instagram_upload_video" THEN 2 ELSE 1)
    /\ c.nFetch = 2 => c.localVideoPath # NoPath
    /\ c.nPlatform <= 1
    /\ c.raised # "" =>
         /\ c.pc = "done"
         /\ c.result \in {FailureJson(c.raised), Thrown(c.raised)}
         /\ c.raised = "IgLoginBadPasswordError" => c.nFetch = 0 /\ c.nPlatform = 0
         /\ c.raised \in {"fetch failed", "Failed to download file: Not Found",
                          "EACCES: permission denied, open", "aborted"}
              => c.nPlatform = 0

\* C21's case: the cover download of a video upload was refused after one
\* login and the video download; nothing was published.
C21_Witness ==
  \E i \in Calls :
    LET c == calls[i] IN
    /\ c.pc = "done" /\ IsUrlVideo(c)
    /\ c.raised = "Failed to download file: Not Found"
    /\ c.nLogin = 1 /\ c.nFetch = 2 /\ c.nPlatform = 0
    /\ c.result = FailureJson("Failed to download file: Not Found")

\* C22: for a finite feed and a limit in 1..50, getTimelineFeed returns, its
\* items are at most limit many and are the front of the feed, and it does
\* not re-enter itself until the stack is exhausted.
FeedCall(c) == getTimelineFeed(c.adapter, Feed(c.feedSize), c.validatedLimit)
FeedFetched(c) ==
  c.pc = "done" /\ c.tool = "instagram_get_timeline" /\ c.feedSize >= 0
C22_TimelineFeedTerminates ==
  \A i \in Calls :
    LET c == calls[i]
        r == FeedCall(c)
    IN  FeedFetched(c) =>
          /\ r.ok
          /\ r.error # "Maximum call stack size exceeded"
          /\ Len(r.items) <= c.validatedLimit
          /\ r.items = SubSeq(Feed(c.feedSize), 1, Len(r.items))

\* What holds of C22: the getTimelineFeed that returns feed.items() as it is
\* terminates and returns the whole feed, whatever the limit.
C22_PlainFeedReturnsWholeFeed ==
  \A i \in Calls :
    LET c == calls[i] IN
    (FeedFetched(c) /\ c.adapter = "plain")
      => FeedCall(c) = [ok |-> TRUE, items |-> Feed(c.feedSize), error |-> ""]

\* C23: in the instagram_get_timeline handler that looks at limit again,
\* every limit that passed the schema goes through unchanged: the fallback
\* to 10 is not taken, 'Limit must be an integer' is not raised, and
\* getTimelineFeed is called with the caller's limit (10 when none was given).
C23_SecondLimitTestIsNoOp ==
  \A i \in Calls :
    LET c == calls[i] IN
    (c.tool = "instagram_get_timeline" /\ c.variant = "url" /\ c.invoked)
      => /\ HandlerLimit(c.limit) = [ok |-> TRUE, value |-> c.limit]
         /\ c.raised # "Limit must be an integer"
         /\ c.nPlatform = 1 =>
              /\ c.validatedLimit = c.limit.n
              /\ c.rawLimit.t # "undefined" => c.validatedLimit = c.rawLimit.n

\* C23's case: a caller's limit of 50 has reached getTimelineFeed as 50.
C23_Witness ==
  \E i \in Calls :
    LET c == calls[i] IN
    /\ c.tool = "instagram_get_timeline" /\ c.variant = "url"
    /\ c.rawLimit = Num(LimitMax)
    /\ c.nPlatform = 1 /\ c.validatedLimit = LimitMax

\* C24: in the upload handlers that download, the steps come in the order
\* login, download(s), publish, removal, and every staged file is there from
\* the moment its download has returned until the publish step has settled.
IsUrlUpload(c) == c.variant = "url" /\ c.tool \in UploadTools
C24_StagedFileExistsUntilPublished ==
  \A i \in Calls :
    LET c == calls[i] IN
    (IsUrlUpload(c) /\ InFlight(c)) => Staged(c) \subseteq DOMAIN fs

\* the order of the steps alone: the platform is reached only after one login
\* and after every download has returned its path
C24_LoginDownloadPublishInOrder ==
  \A i \in Calls :
    LET c == calls[i] IN
    (IsUrlUpload(c) /\ c.nPlatform = 1)
      => /\ c.nLogin = 1
         /\ IF IsUrlPhoto(c)
              THEN c.nFetch = 1 /\ c.localFilePath # NoPath
              ELSE c.nFetch = 2 /\ c.localVideoPath # NoPath /\ c.localCoverPath # NoPath

\* a staged file of an invocation leaves the directory only in the step in
\* which that invocation ends
C24_RemovedOnlyAtReturn ==
  [][\A i \in Calls :
       \A p \in Staged(calls[i]) :
         (IsUrlUpload(calls[i]) /\ p \in DOMAIN fs /\ p \notin DOMAIN fs')
           => calls'[i].pc = "done"]_vars

\* C25: with invocations interleaved, the cleanup of an invocation that ends
\* never removes a file that another, still in-flight upload has downloaded
\* and holds for its publish step.
C25_CleanupSparesOthersStagedFiles ==
  [][\A i, j \in Calls :
       \A p \in Staged(calls[j]) :
         (i # j /\ calls[i].pc # "done" /\ calls'[i].pc = "done"
            /\ IsUrlUpload(calls[j]) /\ InFlight(calls[j]) /\ p \in DOMAIN fs)
           => p \in DOMAIN fs']_vars

\* C26: when login fails in an upload handler that downloads, nothing is
\* fetched, nothing is created in the staging directory, and the handler
\* returns {success: false, error: <the login failure's message>}.
C26_LoginFailureStopsBeforeDownload ==
  \A i \in Calls :
    LET c == calls[i] IN
    (IsUrlUpload(c) /\ c.raised = "IgLoginBadPasswordError")
      => /\ c.pc = "done"
         /\ c.nLogin = 1 /\ c.nFetch = 0 /\ c.nPlatform = 0
         /\ c.cur = NoPath /\ Staged(c) = {} /\ c.created = {}
         /\ DOMAIN fs = {} /\ ~tempDir /\ pendingOpen = {}
         /\ c.result = FailureJson("IgLoginBadPasswordError")

\* C26's case: a video upload whose login was refused has returned.
C26_Witness ==
  \E i \in Calls :
    LET c == calls[i] IN
    /\ IsUrlVideo(c) /\ c.pc = "done"
    /\ c.raised = "IgLoginBadPasswordError"
    /\ IsFailureJson(c.result) /\ c.nFetch = 0

\* C27: json_utility extract_values, given well-formed JSON and a key_path,
\* never fails: it answers with the value at the path, or null.
IsExtract(c) ==
  /\ IsDone(c, "json_utility")
  /\ c.args.operation = "extract_values"
  /\ ~Empty(c.args.key_path)
  /\ JSONParse(c.args.json.s).ok
C27_ExtractValuesNeverFails ==
  \A i \in Calls :
    IsExtract(calls[i]) => calls[i].result.kind = "returned"

\* the only failure of such a call is a step taken from a null value
C27_FailsOnlyThroughNull ==
  \A i \in Calls :
    (IsExtract(calls[i]) /\ calls[i].result.kind # "returned")
      => /\ calls[i].result = Thrown("Cannot read properties of null")
         /\ Walk(JVal("null", 0, <<>>), <<<<"x">>>>).error = calls[i].raised

\* C28: generate_data of type number, given integer options min <= max,
\* returns only numbers v with min <= v <= max, a bound of 0 included.
IsNumberData(c) == IsDone(c, "generate_data") /\ c.args.type = "number"
NumberItems(c) ==
  IF CountSchema(c.args.count).value = Num(1)
    THEN {c.result.payload[2]}
    ELSE {c.result.payload[k][2] : k \in 1..Len(c.result.payload)}
C28_NumbersWithinGivenBounds ==
  \A i \in Calls :
    LET c == calls[i]
        o == c.args.options
    IN  (IsNumberData(c) /\ o.present /\ o.min.t = "number" /\ o.max.t = "number"
           /\ o.min.n <= o.max.n)
          => \A v \in NumberItems(c) : o.min.n <= v /\ v <= o.max.n

\* the same with both bounds different from 0
C28_NumbersWithinNonZeroBounds ==
  \A i \in Calls :
    LET c == calls[i]
        o == c.args.options
    IN  (IsNumberData(c) /\ o.present /\ o.min.t = "number" /\ o.max.t = "number"
           /\ o.min.n <= o.max.n /\ o.min.n # 0 /\ o.max.n # 0)
          => \A v \in NumberItems(c) : o.min.n <= v /\ v <= o.max.n

\* with no bound given the numbers lie in 1..100
C28_DefaultBounds ==
  \A i \in Calls :
    LET c == calls[i]
        o == c.args.options
    IN  (IsNumberData(c) /\ (o.present => o.min.t = "undefined" /\ o.max.t = "undefined"))
          => \A v \in NumberItems(c) : NumberMinDefault <= v /\ v <= NumberMaxDefault

====
